---- MODULE Spec2Model ----
(***************************************************************************)
(* Voice-to-text browser extension: the streaming content script           *)
(* (src/unnamed/part_000, lines 147-1101).                                  *)
(*                                                                         *)
(* The content script keeps all of its state in closure-level variables    *)
(* (isRecording, ws, micStream, procNode, lastPartial, liveStartIdx, ...)  *)
(* that every event handler reads and writes.  Each action below is one    *)
(* task of the page's event loop: a DOM event, the resumption of an await  *)
(* of startRecording, one WebSocket event or one audio callback, run to    *)
(* completion together with the microtasks it schedules.                   *)
(*                                                                         *)
(* Handlers are written as operators from a state record to a state        *)
(* record, so that a handler that calls another (handleWsMessage ->        *)
(* cleanupStreaming -> cleanupAudioGraph) is the composition of their      *)
(* operators.                                                              *)
(*                                                                         *)
(* Scope of the DOM model: the editable elements are text inputs or        *)
(* textareas (the value/selectionStart branch of updateLiveText,           *)
(* finalizeLiveText, clearLiveText and insertTextAtCursor); the user does  *)
(* not type or move the caret while a model run lasts.                     *)
(***************************************************************************)
EXTENDS Integers, Sequences, FiniteSets, TLC

\* ------------------------------------------------------------------ bounds

\* startRecording invocations (and so MediaStreams and WebSockets) per run.
MaxStarts == 2
\* Clock ticks per run; one tick is the debounce interval.
MaxTicks == 3
\* Binary audio messages sent per connection.
MaxAudio == 1

\* ------------------------------------------------------- program constants

PARTIAL_DEBOUNCE_MS == 250
PARTIAL_MIN_CHARS == 3
STREAM_SAMPLE_RATE == 16000

\* ------------------------------------------------------------ null values

\* A null object reference (ws, micStream, currentEl).
Null == 0
\* liveStartIdx == null.
NullIdx == 0 - 1

\* ------------------------------------------------------------- text values

\* Strings are sequences of one-character strings.
Empty == << >>
Blank == <<" ", " ">>
Hi == <<"h", "i">>
Hello == <<"h", "e", "l", "l", "o">>
Help == <<"h", "e", "l", "p">>
HelloWor == <<"h", "e", "l", "l", "o", " ", "w", "o", "r">>
HelloWorld == <<"h", "e", "l", "l", "o", " ", "w", "o", "r", "l", "d">>
\* The same hypothesis as the server may send it, padded with white space.
HelloWorldPadded == <<" ">> \o HelloWorld \o <<" ">>
Ok == <<"o", "k">>
OkPadded == <<" ", "o", "k">>

\* The texts of the partial messages a server may send.
Hyps == {Blank, Hi, Hello, Help, HelloWor, HelloWorldPadded}
\* The texts of the final messages a server may send.
Finals == {Empty, OkPadded}

Min(a, b) == IF a < b THEN a ELSE b

RECURSIVE TrimLeft(_)
TrimLeft(t) == IF t # << >> /\ Head(t) = " " THEN TrimLeft(Tail(t)) ELSE t

RECURSIVE TrimRight(_)
TrimRight(t) ==
    IF t # << >> /\ t[Len(t)] = " " THEN TrimRight(SubSeq(t, 1, Len(t) - 1)) ELSE t

\* String.prototype.trim
Trim(t) == TrimRight(TrimLeft(t))

\* String.prototype.slice(a, b) for 0 <= a, b: both ends are clamped to the length.
Slice(v, a, b) == SubSeq(v, Min(a, Len(v)) + 1, Min(b, Len(v)))

\* String.prototype.slice(a)
SliceFrom(v, a) == Slice(v, a, Len(v))

\* a.startsWith(b)
StartsWith(a, b) == Len(b) <= Len(a) /\ SubSeq(a, 1, Len(b)) = b

\* ------------------------------------------------------------------- state

Els == {1, 2}
Acts == 1..MaxStarts

VARIABLES
    present,        \* the editable elements that are in the document
    currentEl,      \* the target element, or Null
    value,          \* value[e]: input.value
    sel,            \* sel[e] = <<selectionStart, selectionEnd>>
    isRecording,
    btn,            \* the mic button: "idle", "recording" or "processing"
    ws,             \* the socket the script refers to, or Null
    micStream,      \* the capture (stream, context and nodes) the script refers to, or Null
    liveStartIdx,
    livePrevLen,
    lastPartial,
    lastPartialTs,
    now,            \* Date.now()
    nStarts,        \* startRecording invocations so far
    pc,             \* pc[k]: where invocation k of startRecording stands
    sock,           \* sock[s]: readyState of the socket invocation s created
    sent,           \* sent[s]: the messages the script sent on socket s, in order
    srvDone,        \* srvDone[s]: the server sent its final or error event on s
    streams,        \* streams[k]: the capture invocation k acquired
    emitted,        \* the partials accepted since the throttle state was last reset
    shown,          \* shown[s]: where the first partial received on s was shown
    batch,          \* the state of the batch content script (entrypoints/content.ts)
    rs,             \* a caller of downsampleFloat32: its arguments and what it got
    srv,            \* one connection of the server: its session
    popup           \* the popup of the extension (entrypoints/popup/App.tsx)

vars == <<present, currentEl, value, sel, isRecording, btn, ws, micStream,
          liveStartIdx, livePrevLen, lastPartial, lastPartialTs, now, nStarts,
          pc, sock, sent, srvDone, streams, emitted, shown, batch, rs, srv, popup>>

\* The variables of the streaming content script.
streamVars == <<present, currentEl, value, sel, isRecording, btn, ws, micStream,
                liveStartIdx, livePrevLen, lastPartial, lastPartialTs, now, nStarts,
                pc, sock, sent, srvDone, streams, emitted, shown>>

\* The state as one record, for the handlers to transform.
Cur ==
    [present |-> present, currentEl |-> currentEl, value |-> value, sel |-> sel,
     isRecording |-> isRecording, btn |-> btn, ws |-> ws, micStream |-> micStream,
     liveStartIdx |-> liveStartIdx, livePrevLen |-> livePrevLen,
     lastPartial |-> lastPartial, lastPartialTs |-> lastPartialTs, now |-> now,
     nStarts |-> nStarts, pc |-> pc, sock |-> sock, sent |-> sent,
     srvDone |-> srvDone, streams |-> streams, emitted |-> emitted, shown |-> shown]

Commit(r) ==
    /\ present' = r.present
    /\ currentEl' = r.currentEl
    /\ value' = r.value
    /\ sel' = r.sel
    /\ isRecording' = r.isRecording
    /\ btn' = r.btn
    /\ ws' = r.ws
    /\ micStream' = r.micStream
    /\ liveStartIdx' = r.liveStartIdx
    /\ livePrevLen' = r.livePrevLen
    /\ lastPartial' = r.lastPartial
    /\ lastPartialTs' = r.lastPartialTs
    /\ now' = r.now
    /\ nStarts' = r.nStarts
    /\ pc' = r.pc
    /\ sock' = r.sock
    /\ sent' = r.sent
    /\ srvDone' = r.srvDone
    /\ streams' = r.streams
    /\ emitted' = r.emitted
    /\ shown' = r.shown
    /\ UNCHANGED <<batch, rs, srv, popup>>

\* --------------------------------------------------------------- resampler

\* Both content scripts carry the same downsampleFloat32 and floatTo16BitPCM
\* (part_000 690-726, content.ts 458-498).  A typed array is a record of its
\* element type and its elements.  A Float32 sample is an integer count of
\* 1/SampleUnit; window sums and averages are exact rationals, which is what the
\* IEEE arithmetic of the code gives for these samples and for the rates below.
SampleUnit == 2

\* 0x7fff and 0x8000
PCM_POS == 32767
PCM_NEG == 32768

Float32Array(data) == [type |-> "f32", data |-> data]
Int16Array(data) == [type |-> "i16", data |-> data]

\* The integer part of n / d for d > 0 (conversion truncates towards zero).
TruncDiv(n, d) == IF n >= 0 THEN n \div d ELSE 0 - ((0 - n) \div d)

\* Storing the number n / d into an Int16Array element: truncate, then wrap
\* modulo 2^16.
ToInt16(n, d) == ((TruncDiv(n, d) + 32768) % 65536) - 32768

\* Math.max(-1, Math.min(1, n / d)) as a numerator over d, for d > 0.
Clamp(n, d) == IF n > d THEN d ELSE IF n < 0 - d THEN 0 - d ELSE n

\* The conversion without the clamp.
floatTo16BitPCM_NoClamp(input) ==
    IF input.type = "i16"
    THEN input
    ELSE Int16Array([i \in 1..Len(input.data) |->
            IF input.data[i] < 0 THEN ToInt16(input.data[i] * PCM_NEG, SampleUnit)
                                 ELSE ToInt16(input.data[i] * PCM_POS, SampleUnit)])

floatTo16BitPCM(input) ==
    IF input.type = "i16"
    THEN input
    ELSE Int16Array([i \in 1..Len(input.data) |->
            LET s == Clamp(input.data[i], SampleUnit)
            IN IF s < 0 THEN ToInt16(s * PCM_NEG, SampleUnit)
                        ELSE ToInt16(s * PCM_POS, SampleUnit)])

\* The inner for loop of downsampleFloat32: <<acc, count>> over the indices
\* i, i + 1, ... while i < next and i < buffer.length (indices from 0).
RECURSIVE WindowSum(_, _, _, _, _)
WindowSum(data, i, next, acc, count) ==
    IF i < next /\ i < Len(data)
    THEN WindowSum(data, i + 1, next, acc + data[i + 1], count + 1)
    ELSE <<acc, count>>

\* A loop whose windows overlap by one sample.
RECURSIVE DownsampleLoop_Overlap(_, _, _, _, _, _, _)
DownsampleLoop_Overlap(data, inRate, outRate, newLen, offsetResult, offsetBuffer, result) ==
    IF offsetResult < newLen
    THEN LET nextOffsetBuffer == ((offsetResult + 1) * inRate) \div outRate
             w == WindowSum(data, IF offsetBuffer > 0 THEN offsetBuffer - 1 ELSE 0,
                            nextOffsetBuffer, 0, 0)
             d == SampleUnit * (IF w[2] = 0 THEN 1 ELSE w[2])
             out == ToInt16(Clamp(w[1], d) * PCM_POS, d)
         IN DownsampleLoop_Overlap(data, inRate, outRate, newLen, offsetResult + 1,
                                   nextOffsetBuffer, Append(result, out))
    ELSE result

\* The while loop of downsampleFloat32, with ratio = inRate / outRate.
RECURSIVE DownsampleLoop(_, _, _, _, _, _, _)
DownsampleLoop(data, inRate, outRate, newLen, offsetResult, offsetBuffer, result) ==
    IF offsetResult < newLen
    THEN LET nextOffsetBuffer == ((offsetResult + 1) * inRate) \div outRate
             w == WindowSum(data, offsetBuffer, nextOffsetBuffer, 0, 0)
             \* sample = acc / (count || 1), a count of 1 / d
             d == SampleUnit * (IF w[2] = 0 THEN 1 ELSE w[2])
             out == ToInt16(Clamp(w[1], d) * PCM_POS, d)
         IN DownsampleLoop(data, inRate, outRate, newLen, offsetResult + 1,
                           nextOffsetBuffer, Append(result, out))
    ELSE result

\* A resampler that rounds the output length up.
downsampleFloat32_RoundUp(buffer, inRate, outRate) ==
    IF outRate = inRate THEN floatTo16BitPCM(buffer)
    ELSE IF outRate > inRate THEN floatTo16BitPCM(buffer)
    ELSE LET newLen == (Len(buffer.data) * outRate + inRate - 1) \div inRate
         IN Int16Array(DownsampleLoop(buffer.data, inRate, outRate, newLen, 0, 0, << >>))

\* A resampler that returns nothing once the clock of the page has advanced.
downsampleFloat32_Stateful(buffer, inRate, outRate) ==
    IF now > PARTIAL_DEBOUNCE_MS THEN Int16Array(<< >>)
    ELSE IF outRate >= inRate THEN floatTo16BitPCM(buffer)
    ELSE LET newLen == (Len(buffer.data) * outRate) \div inRate
         IN Int16Array(DownsampleLoop(buffer.data, inRate, outRate, newLen, 0, 0, << >>))

downsampleFloat32(buffer, inRate, outRate) ==
    IF outRate = inRate THEN floatTo16BitPCM(buffer)
    ELSE IF outRate > inRate THEN floatTo16BitPCM(buffer)
    ELSE LET newLen == (Len(buffer.data) * outRate) \div inRate
         IN Int16Array(DownsampleLoop(buffer.data, inRate, outRate, newLen, 0, 0, << >>))

\* ------------------------------------------------------ batch script state

\* entrypoints/content.ts line 15
RECORD_SAMPLE_RATE == 16000

\* VAD numbers of procNode.onaudioprocess (content.ts 304-329).  The RMS of a
\* block is kept as a whole number of Int16 steps and noiseFloor as a whole
\* number of 1/NoiseUnit of a step, both rounded down.
NoiseUnit == 1000
\* noiseFloor = 0.002, in 1/NoiseUnit
NOISE_FLOOR_SEED == 2
\* vadHistory.length > 30
VAD_HISTORY_MAX == 30
\* voiceDetectedFrames > 5
ONSET_FRAMES == 5
\* silenceFrames > 45
SILENCE_FRAMES == 45

\* Samples per input block of the ScriptProcessorNode.
BlockLen == 4
\* The input blocks: silence, a tone of amplitude 0.5 that changes sign, a
\* constant level of 0.5, and a tone of amplitude 1 (samples in 1/SampleUnit).
ZeroBlock == Float32Array([i \in 1..BlockLen |-> 0])
ToneBlock == Float32Array([i \in 1..BlockLen |-> IF 2 * i <= BlockLen THEN 1 ELSE 0 - 1])
DcBlock == Float32Array([i \in 1..BlockLen |-> 1])
LoudBlock == Float32Array([i \in 1..BlockLen |-> IF 2 * i <= BlockLen THEN 2 ELSE 0 - 2])

\* How many decisions of a session fed remembers.
FedLen == 8

\* startRecording and stopRecording invocations of the batch script per run.
MaxBatchStarts == 2
BActs == 1..MaxBatchStarts

\* The state of the batch script when it is loaded, on a device whose
\* AudioContext runs at sampleRate.  vadHistory is kept by its length: its
\* elements feed only avgEnergy, which nothing reads.
BatchInit(sampleRate) ==
    [sampleRate |-> sampleRate,
     present |-> Els,
     currentEl |-> Null,
     value |-> [e \in Els |-> IF e = 1 THEN <<"x", "y">> ELSE <<"z">>],
     sel |-> [e \in Els |-> IF e = 1 THEN <<1, 1>> ELSE <<0, 0>>],
     isRecording |-> FALSE,
     btn |-> "idle",
     micStream |-> Null,
     recordedChunks |-> << >>,
     maxRecordingTimer |-> Null,
     noiseFloor |-> NOISE_FLOOR_SEED,
     vadHistory |-> 0,
     voiceDetectedFrames |-> 0,
     silenceFrames |-> 0,
     hasDetectedVoice |-> FALSE,
     nStarts |-> 0,                              \* startRecording invocations so far
     pc |-> [k \in BActs |-> "idle"],            \* where invocation k of startRecording stands
     streams |-> [k \in BActs |-> "none"],       \* the capture graph invocation k created
     timers |-> [k \in BActs |-> "none"],        \* the timeout invocation k armed
     nStops |-> 0,                               \* stopRecording invocations that passed the guard
     spc |-> [j \in BActs |-> "idle"],           \* where invocation j of stopRecording stands
     body |-> [j \in BActs |-> << >>],           \* combinedAudio of invocation j, until it is posted
     posts |-> 0,                                \* POST /transcribe requests made
     epochs |-> 0,                               \* times isRecording went from false to true
     captured |-> << >>,                         \* the samples pushed since recording began, in order
     expected |-> [j \in BActs |-> << >>],       \* captured when invocation j of stopRecording ran
     onsets |-> 0,                               \* "Listening" notifications since the last start
     fed |-> << >>,                              \* the first FedLen candidate decisions since the last start
     heard |-> << >>,                            \* the first FedLen downsampled blocks since the last start
     quietRun |-> 0,                             \* non-candidate blocks since the last candidate or start
     nBlocks |-> 0,                              \* blocks processed so far
     switches |-> 0,                             \* times the input changed
     tones |-> 0,                                \* tone blocks processed so far
     lastBlock |-> ZeroBlock]

\* A caller of downsampleFloat32 before its calls.
RsInit(buffer, inRate, outRate) ==
    [buffer |-> buffer, inRate |-> inRate, outRate |-> outRate,
     calls |-> 0, out |-> << >>, at |-> << >>]

\* ------------------------------------------------------------ server state

\* The sample rate the server requires, the silence duration after which it
\* finalizes by itself, and the period of its clock in the model (ms).
REQUIRED_SAMPLE_RATE == 16000
SILENCE_MS == 3000
SrvTickMs == 1500

\* A connection the server has just accepted: ready has been sent, and the
\* session awaits its start message.
SrvInit ==
    [state |-> "AwaitingStart",
     out |-> <<[type |-> "ready", text |-> << >>]>>,   \* the events sent to the client, in order
     acc |-> << >>,                  \* the accumulator: the chunks received, in order
     got |-> 0,                      \* binary messages read from the connection
     now |-> 0,
     lastLoud |-> 0,                 \* when the last loud chunk arrived
     inflight |-> 0,                 \* decode invocations that are running
     queued |-> 0,                   \* decode invocations that wait for the running one
     decodes |-> 0,                  \* decode invocations so far
     ticks |-> 0,                    \* scheduler ticks so far
     final |-> FALSE,                \* the running decode is the final one
     input |-> << >>,                \* what the running decode was given
     lastEmittedText |-> Empty,
     lastEmitTimestamp |-> 0,
     cancelled |-> FALSE,            \* cancel was received or the transport closed
     cause |-> "none",               \* why the session left Streaming: "stop" or "silence"
     open |-> TRUE]                  \* the connection is open

\* ------------------------------------------------------------- popup state

\* What the popup's server fields hold before anything is loaded (useState
\* "ws" and "127.0.0.1:8020"), another endpoint a user may configure, and the
\* absence of a stored endpoint.
DefaultEndpoint == "ws://127.0.0.1:8020"
OtherEndpoint == "wss://asr.example"
Endpoints == {DefaultEndpoint, OtherEndpoint}
NoEndpoint == "none"

\* The message Test Connection shows, and no message.
NotReachable == "Server not reachable"
NoError == "null"

\* The popup when it is mounted: its first render, before the storage callback.
\* stored is what chrome.storage.local holds, up the endpoints that accept a
\* connection.
PopupInit(stored, up) ==
    [endpoint |-> DefaultEndpoint,   \* serverProtocol and serverBase of the latest render
     stored |-> stored,
     up |-> up,
     loaded |-> FALSE,               \* the storage callback of the mount effect has run
     mountCheck |-> FALSE,           \* setTimeout(checkServerStatus, 0) is pending
     serverStatus |-> "checking",
     error |-> NoError,
     isLoading |-> FALSE,
     isSaving |-> FALSE,
     saving |-> NoEndpoint,          \* the endpoint saveSettings is storing
     checks |-> << >>]               \* the invocations of checkServerStatus, in order

\* Date.now() when the script is loaded: any time at least one debounce interval
\* after the epoch.
StartTime == PARTIAL_DEBOUNCE_MS
TickMs == PARTIAL_DEBOUNCE_MS

\* The streaming content script when it is loaded.
StreamInit ==
    /\ present = Els
    /\ currentEl = Null
    /\ value = [e \in Els |-> IF e = 1 THEN <<"x", "y">> ELSE <<"z">>]
    /\ sel = [e \in Els |-> IF e = 1 THEN <<1, 1>> ELSE <<0, 0>>]
    /\ isRecording = FALSE
    /\ btn = "idle"
    /\ ws = Null
    /\ micStream = Null
    /\ liveStartIdx = NullIdx
    /\ livePrevLen = 0
    /\ lastPartial = Empty
    /\ lastPartialTs = 0
    /\ now = StartTime
    /\ nStarts = 0
    /\ pc = [k \in Acts |-> "idle"]
    /\ sock = [s \in Acts |-> "NONE"]
    /\ sent = [s \in Acts |-> << >>]
    /\ srvDone = [s \in Acts |-> FALSE]
    /\ streams = [k \in Acts |-> "none"]
    /\ emitted = << >>
    /\ shown = [s \in Acts |-> << >>]

Init ==
    /\ StreamInit
    /\ batch = BatchInit(RECORD_SAMPLE_RATE)
    /\ rs = RsInit(Float32Array(<< >>), RECORD_SAMPLE_RATE, RECORD_SAMPLE_RATE)
    /\ srv = SrvInit
    /\ popup = PopupInit(NoEndpoint, {DefaultEndpoint})

\* ---------------------------------------------------------------- handlers

\* WebSocket.send on socket s: the message is transmitted when the socket is OPEN
\* and silently dropped when it is CLOSING or CLOSED.  (On a CONNECTING socket
\* send throws; the callers below decide what the exception does.)
wsSend(st, s, m) ==
    IF st.sock[s] = "OPEN" THEN [st EXCEPT !.sent[s] = Append(@, m)] ELSE st

\* WebSocket.close on socket s: CONNECTING and OPEN sockets start closing (their
\* close event is delivered later), the others are left alone.
wsClose(st, s) ==
    IF st.sock[s] \in {"CONNECTING", "OPEN"} THEN [st EXCEPT !.sock[s] = "CLOSING"] ELSE st

resetBtn(st) == [st EXCEPT !.btn = "idle"]

setBtnRecording(st) == [st EXCEPT !.btn = "recording"]

setBtnProcessing(st) == [st EXCEPT !.btn = "processing"]

resetLiveState(st) == [st EXCEPT !.liveStartIdx = NullIdx, !.livePrevLen = 0]

\* Assigning input.selectionStart = input.selectionEnd = caret; the browser clamps
\* the offset to the length of the value.
setCaret(st, el, caret) ==
    LET c == Min(caret, Len(st.value[el])) IN [st EXCEPT !.sel[el] = <<c, c>>]

updateLiveText(st, el, text) ==
    LET start == IF st.liveStartIdx = NullIdx THEN st.sel[el][1] ELSE st.liveStartIdx
        prev == IF st.liveStartIdx = NullIdx THEN 0 ELSE st.livePrevLen
        before == Slice(st.value[el], 0, start)
        after == SliceFrom(st.value[el], start + prev)
        st1 == [st EXCEPT !.liveStartIdx = start,
                          !.livePrevLen = Len(text),
                          !.value[el] = before \o text \o after]
    IN setCaret(st1, el, start + Len(text))

insertTextAtCursor(st, el, text) ==
    LET start == st.sel[el][1]
        end == st.sel[el][2]
        st1 == [st EXCEPT !.value[el] =
                    Slice(st.value[el], 0, start) \o text \o SliceFrom(st.value[el], end)]
    IN setCaret(st1, el, start + Len(text))

finalizeLiveText(st, el, text) ==
    IF st.liveStartIdx = NullIdx
    THEN resetLiveState(insertTextAtCursor(st, el, text))
    ELSE LET before == Slice(st.value[el], 0, st.liveStartIdx)
             after == SliceFrom(st.value[el], st.liveStartIdx + st.livePrevLen)
             st1 == [st EXCEPT !.value[el] = before \o text \o after]
         IN resetLiveState(setCaret(st1, el, st.liveStartIdx + Len(text)))

clearLiveText(st) ==
    IF st.currentEl # Null /\ st.liveStartIdx # NullIdx
    THEN LET el == st.currentEl
             before == Slice(st.value[el], 0, st.liveStartIdx)
             after == SliceFrom(st.value[el], st.liveStartIdx + st.livePrevLen)
             st1 == [st EXCEPT !.value[el] = before \o after]
         IN resetLiveState(setCaret(st1, el, Len(before)))
    ELSE resetLiveState(st)

\* Disconnects the nodes and closes the context the script refers to, and stops
\* the tracks of the stream it refers to.
cleanupAudioGraph(st) ==
    IF st.micStream # Null
    THEN [st EXCEPT !.streams[st.micStream] = "released", !.micStream = Null]
    ELSE st

cleanupStreaming(st, error) ==
    LET st1 == cleanupAudioGraph(st)
        st2 == IF st1.ws # Null THEN wsClose(st1, st1.ws) ELSE st1
        st3 == [st2 EXCEPT !.ws = Null, !.isRecording = FALSE]
        st4 == IF error THEN clearLiveText(st3) ELSE st3
    IN [st4 EXCEPT !.lastPartial = Empty, !.lastPartialTs = 0, !.emitted = << >>]

stopRecording(st) ==
    IF ~st.isRecording
    THEN st
    ELSE LET st1 == setBtnProcessing([st EXCEPT !.isRecording = FALSE])
             \* try { ws?.send(stop) } catch {}
             st2 == IF st1.ws # Null THEN wsSend(st1, st1.ws, "stop") ELSE st1
         IN cleanupAudioGraph(st2)

\* The checks without the minimum length.
PartialAccepted_NoMinLen(st, text) ==
    /\ text # Empty
    /\ text # st.lastPartial
    /\ ~(st.now - st.lastPartialTs < PARTIAL_DEBOUNCE_MS)
    /\ ~(st.lastPartial # Empty /\ StartsWith(st.lastPartial, text)
            /\ Len(text) < Len(st.lastPartial))

\* The checks without the one against backtracking.
PartialAccepted_NoPrefix(st, text) ==
    /\ text # Empty
    /\ ~(Len(text) < PARTIAL_MIN_CHARS)
    /\ text # st.lastPartial
    /\ ~(st.now - st.lastPartialTs < PARTIAL_DEBOUNCE_MS)

\* The five checks of the partial branch of handleWsMessage, on the trimmed text.
PartialAccepted(st, text) ==
    /\ text # Empty
    /\ ~(Len(text) < PARTIAL_MIN_CHARS)
    /\ text # st.lastPartial
    /\ ~(st.now - st.lastPartialTs < PARTIAL_DEBOUNCE_MS)
    /\ ~(st.lastPartial # Empty /\ StartsWith(st.lastPartial, text)
            /\ Len(text) < Len(st.lastPartial))

\* handleWsMessage for {type: "partial", text: raw} received on socket s.
handlePartial(st, s, raw) ==
    LET text == Trim(raw) IN
    IF ~PartialAccepted(st, text)
    THEN st
    ELSE LET st1 == [st EXCEPT !.lastPartial = text, !.lastPartialTs = st.now,
                               !.emitted = Append(@, text)]
         IN IF st1.currentEl = Null
            THEN st1
            ELSE LET st2 == updateLiveText(st1, st1.currentEl, text)
                 IN IF st2.shown[s] = << >>
                    THEN [st2 EXCEPT !.shown[s] =
                            <<[el |-> st.currentEl,
                               before |-> Slice(st.value[st.currentEl], 0, st.sel[st.currentEl][1]),
                               after |-> SliceFrom(st.value[st.currentEl], st.sel[st.currentEl][1])]>>]
                    ELSE st2

\* handleWsMessage for {type: "final", text: raw}.
handleFinal(st, raw) ==
    LET text == Trim(raw)
        st1 == IF st.currentEl # Null THEN finalizeLiveText(st, st.currentEl, text) ELSE st
        st2 == resetBtn(cleanupStreaming(st1, FALSE))
    IN [st2 EXCEPT !.lastPartial = Empty, !.lastPartialTs = 0]

\* handleWsMessage for {type: "error"}.
handleError(st) == resetBtn(cleanupStreaming(clearLiveText(st), TRUE))

\* ws.onclose
onclose(st) == IF st.isRecording THEN resetBtn(cleanupStreaming(st, TRUE)) ELSE st

\* A catch block that only resets the button.
startFailed_NoCleanup(st) == resetBtn(st)

\* The catch block of startRecording.
startFailed(st) == resetBtn(cleanupStreaming(st, TRUE))

\* ----------------------------------------------------------------- actions

\* focusin / click on the editable element t:
\* handlePotentialEditable keeps a currentEl that is still in the document.
FocusIn(t) ==
    /\ t \in present
    /\ Commit(IF currentEl # Null /\ currentEl \in present
              THEN Cur
              ELSE [Cur EXCEPT !.currentEl = t])

\* The page removes element e; the MutationObserver callback follows.
RemoveEl(e) ==
    /\ e \in present
    /\ Commit([Cur EXCEPT !.present = present \ {e},
                          !.currentEl = IF currentEl = e THEN Null ELSE currentEl])

\* Click on the mic button while recording: stopRecording.
ClickStop ==
    /\ currentEl # Null
    /\ isRecording
    /\ Commit(stopRecording(Cur))

\* Click on the mic button while not recording: startRecording runs up to its
\* await of getUserMedia.
ClickStart ==
    /\ currentEl # Null
    /\ ~isRecording
    /\ nStarts < MaxStarts
    /\ Commit([Cur EXCEPT !.nStarts = nStarts + 1, !.pc[nStarts + 1] = "media"])

\* getUserMedia resolves for invocation k: the stream, context and nodes are
\* stored, and openWebSocket runs up to its await of getWsUrl.
MediaResolved(k) ==
    /\ pc[k] = "media"
    /\ Commit([Cur EXCEPT !.micStream = k, !.streams[k] = "live", !.pc[k] = "url"])

\* getUserMedia rejects for invocation k (NotAllowedError, NotFoundError, ...).
MediaRejected(k) ==
    /\ pc[k] = "media"
    /\ Commit(startFailed([Cur EXCEPT !.pc[k] = "done"]))

\* getWsUrl resolves for invocation k: the socket is created and its handlers set.
UrlResolved(k) ==
    /\ pc[k] = "url"
    /\ Commit([Cur EXCEPT !.ws = k, !.sock[k] = "CONNECTING", !.pc[k] = "open"])

\* getWsUrl resolves and the WebSocket constructor throws: openWebSocket resolves
\* false and startRecording throws into its catch block.
WsCreateFails(k) ==
    /\ pc[k] = "url"
    /\ Commit(startFailed([Cur EXCEPT !.pc[k] = "done"]))

\* The rest of startRecording, once openWebSocket has resolved true.
startContinue(st, k) ==
    IF st.micStream = Null
    THEN \* procNode is null: the assignment of onaudioprocess throws into the catch block
         startFailed([st EXCEPT !.pc[k] = "done"])
    ELSE setBtnRecording([st EXCEPT !.streams[st.micStream] = "capturing",
                                    !.isRecording = TRUE,
                                    !.pc[k] = "done"])

\* ws.onopen of socket s, then the continuation of the invocation that awaits it.
onopen(st, s) ==
    IF st.ws # Null /\ st.sock[st.ws] = "CONNECTING"
    THEN \* send throws InvalidStateError: resolve(true) is never reached
         st
    ELSE startContinue(IF st.ws # Null THEN wsSend(st, st.ws, "start") ELSE st, s)

\* Socket s opens.
WsOpen(s) ==
    /\ sock[s] = "CONNECTING"
    /\ Commit(onopen([Cur EXCEPT !.sock[s] = "OPEN"], s))

\* Socket s closes: the connection fails or the peer closes it, or the closing the
\* script asked for completes.
WsClosed(s) ==
    /\ sock[s] \in {"CONNECTING", "OPEN", "CLOSING"}
    /\ Commit(onclose([Cur EXCEPT !.sock[s] = "CLOSED"]))

NumAudio(q) == Cardinality({i \in 1..Len(q) : q[i] = "audio"})

\* procNode.onaudioprocess of capture k.  The handler returns when ws is null or
\* not OPEN and throws when audioCtx is null; otherwise it sends one block.
AudioProcess(k) ==
    /\ streams[k] = "capturing"
    /\ ws # Null
    /\ sock[ws] = "OPEN"
    /\ micStream # Null
    /\ NumAudio(sent[ws]) < MaxAudio
    /\ Commit(wsSend(Cur, ws, "audio"))

\* A server that has received start on s and has not ended the session.
SrvStreaming(s) ==
    /\ sock[s] = "OPEN"
    /\ ~srvDone[s]
    /\ \E i \in 1..Len(sent[s]) : sent[s][i] = "start"

\* ws.onmessage of socket s with a partial.
RecvPartial(s, t) ==
    /\ SrvStreaming(s)
    /\ Commit(handlePartial(Cur, s, t))

\* ws.onmessage of socket s with the final.
RecvFinal(s, t) ==
    /\ SrvStreaming(s)
    /\ Commit(handleFinal([Cur EXCEPT !.srvDone[s] = TRUE], t))

\* ws.onmessage of socket s with an error.
RecvError(s) ==
    /\ sock[s] = "OPEN"
    /\ ~srvDone[s]
    /\ Commit(handleError([Cur EXCEPT !.srvDone[s] = TRUE]))

\* Time passes.
Tick ==
    /\ now < StartTime + MaxTicks * TickMs
    /\ Commit([Cur EXCEPT !.now = now + TickMs])

\* The events of the page, the script and the transport, whatever started the
\* session and whatever the server says.
Lifecycle ==
    \/ \E t \in Els : FocusIn(t)
    \/ \E e \in Els : RemoveEl(e)
    \/ ClickStop
    \/ \E k \in Acts : MediaResolved(k)
    \/ \E k \in Acts : MediaRejected(k)
    \/ \E k \in Acts : UrlResolved(k)
    \/ \E k \in Acts : WsCreateFails(k)
    \/ \E s \in Acts : WsOpen(s)
    \/ \E s \in Acts : WsClosed(s)
    \/ \E k \in Acts : AudioProcess(k)
    \/ \E s \in Acts : \E t \in Finals : RecvFinal(s, t)
    \/ \E s \in Acts : RecvError(s)

\* The content script under up to MaxStarts clicks that start a recording, which
\* may overlap.  Time stands still, so that each throttle period accepts one
\* partial; the hypotheses are two.
Next ==
    \/ Lifecycle
    \/ ClickStart
    \/ \E s \in Acts : \E t \in {Hello, HelloWor} : RecvPartial(s, t)

Spec == Init /\ [][Next]_vars

\* The first click that starts a recording.
FirstClickStart == nStarts = 0 /\ ClickStart

\* The content script from page load through its first recording: one click that
\* starts a recording, every hypothesis, and the clock.
NextSession ==
    \/ Lifecycle
    \/ FirstClickStart
    \/ \E s \in Acts : \E t \in Hyps : RecvPartial(s, t)
    \/ Tick

SpecSession == Init /\ [][NextSession]_vars

\* ------------------------------------------------------------ client states

\* The states of the session controller, read off the script's variables.
Streaming == isRecording

StopSent(s) == \E i \in 1..Len(sent[s]) : sent[s][i] = "stop"

Stopping == ~isRecording /\ ws # Null /\ StopSent(ws)

Starting == \E k \in Acts : pc[k] \in {"media", "url", "open"}

\* A MediaStream whose tracks have not been stopped holds the capture device.
DeviceHeld == \E k \in Acts : streams[k] \in {"live", "capturing"}

\* The text of the live region of element el.
LiveText(el) == Slice(value[el], liveStartIdx, liveStartIdx + livePrevLen)

\* ---------------------------------------------------------------------- C1

\* text is a strictly shorter prefix of last.
ShorterPrefix(text, last) ==
    /\ Len(text) < Len(last)
    /\ \A i \in 1..Len(text) : text[i] = last[i]

\* The five checks, stated on the variables.
PassesFiveChecks(text) ==
    /\ Len(text) > 0
    /\ Len(text) >= PARTIAL_MIN_CHARS
    /\ text # lastPartial
    /\ now - lastPartialTs >= PARTIAL_DEBOUNCE_MS
    /\ ~ShorterPrefix(text, lastPartial)

\* C1: a received partial whose trimmed text passes the five checks (non-empty,
\* at least 3 characters, different from lastPartial, at least 250 ms after
\* lastPartialTs, not a strictly shorter prefix of lastPartial) becomes
\* lastPartial with lastPartialTs = now, and is shown as the live text of the
\* target element if there is one; a partial that fails a check leaves
\* lastPartial, lastPartialTs, the field values and the live region unchanged.
C1_PartialThrottle ==
    [][\A s \in Acts : \A t \in Hyps :
        RecvPartial(s, t) =>
            IF PassesFiveChecks(Trim(t))
            THEN /\ lastPartial' = Trim(t)
                 /\ lastPartialTs' = now
                 /\ currentEl # Null =>
                        /\ liveStartIdx' # NullIdx
                        /\ LiveText(currentEl)' = Trim(t)
                 /\ currentEl = Null => UNCHANGED <<value, liveStartIdx, livePrevLen>>
            ELSE UNCHANGED <<lastPartial, lastPartialTs, value, sel, liveStartIdx, livePrevLen>>
      ]_vars

\* A second partial, received padded, was accepted after the debounce interval
\* and is shown in the field in place of the first.
C1_Witness ==
    /\ lastPartial = HelloWorld
    /\ lastPartialTs > StartTime
    /\ Len(emitted) > 1
    /\ currentEl # Null
    /\ liveStartIdx # NullIdx
    /\ LiveText(currentEl) = HelloWorld

\* ---------------------------------------------------------------------- C2

\* text extends last: last is a strictly shorter prefix of text.
Extends(text, last) == ShorterPrefix(last, text)

\* A partial with text t is emitted by this step.
Emits(t) == emitted' = Append(emitted, t)

\* C2 as claimed: within one session (the emissions since the throttle state was
\* reset), once "hello wor" has been emitted no strictly shorter prefix of it is
\* emitted later, whatever time has elapsed; and a received hypothesis that extends
\* the last emission is emitted once 250 ms have elapsed since the last emission.
C2_Original ==
    /\ [](\A i \in 1..Len(emitted) : \A j \in 1..Len(emitted) :
            (i < j /\ emitted[i] = HelloWor) => ~ShorterPrefix(emitted[j], HelloWor))
    /\ [][\A s \in Acts : \A t \in Hyps :
            (RecvPartial(s, t) /\ lastPartial # Empty /\ Extends(Trim(t), lastPartial)
                /\ now - lastPartialTs >= PARTIAL_DEBOUNCE_MS) => Emits(Trim(t))
         ]_vars

\* C2 as amended: while a partial p (such as "hello wor") is the most recently
\* emitted one, a received hypothesis that is a strictly shorter prefix of p is
\* not emitted, whatever time has elapsed; a received hypothesis that extends p
\* is emitted if and only if at least 250 ms have elapsed since the last emission.
C2_Amended ==
    [][\A s \in Acts : \A t \in Hyps :
        (RecvPartial(s, t) /\ lastPartial # Empty) =>
            /\ ShorterPrefix(Trim(t), lastPartial) =>
                   UNCHANGED <<emitted, lastPartial, lastPartialTs, value, liveStartIdx, livePrevLen>>
            /\ Extends(Trim(t), lastPartial) =>
                   IF now - lastPartialTs >= PARTIAL_DEBOUNCE_MS
                   THEN Emits(Trim(t)) /\ lastPartial' = Trim(t) /\ lastPartialTs' = now
                   ELSE UNCHANGED <<emitted, lastPartial, lastPartialTs, value, liveStartIdx, livePrevLen>>
      ]_vars

\* "hello wor" was emitted and "hello world" right after it, one debounce
\* interval later at the least.
C2_Witness ==
    /\ Len(emitted) > 1
    /\ emitted[Len(emitted) - 1] = HelloWor
    /\ emitted[Len(emitted)] = HelloWorld
    /\ lastPartial = HelloWorld
    /\ lastPartialTs >= StartTime + PARTIAL_DEBOUNCE_MS

\* ---------------------------------------------------------------------- C3

\* C3: a partial received on a connection on which the script has sent stop
\* (stopRecording has run: the client is Stopping or in a later state) changes
\* neither the throttle state nor the live text.
C3_NoPartialAfterStop ==
    [][\A s \in Acts : \A t \in Hyps :
        (RecvPartial(s, t) /\ StopSent(s)) =>
            UNCHANGED <<lastPartial, lastPartialTs, value, sel, liveStartIdx, livePrevLen>>
      ]_vars

\* ---------------------------------------------------------------------- C4

\* C4: a click that stops a Streaming client sends stop on the connection,
\* leaves the capture device released in the same step, and no binary audio
\* message is ever sent on a connection after stop.
C4_StopReleasesCapture ==
    [][/\ ClickStop =>
            /\ sent'[ws] = Append(sent[ws], "stop")
            /\ micStream' = Null
            /\ ~DeviceHeld'
       /\ \A s \in Acts :
            (sent'[s] = Append(sent[s], "audio")) => ~StopSent(s)
      ]_vars

\* ---------------------------------------------------------------------- C5

\* The Closed state of the session controller.
Closed ==
    /\ ~isRecording
    /\ ws = Null
    /\ micStream = Null
    /\ ~DeviceHeld
    /\ liveStartIdx = NullIdx
    /\ btn = "idle"

\* The field values with the live text, if any, taken out.
WithoutLive ==
    IF currentEl # Null /\ liveStartIdx # NullIdx
    THEN [value EXCEPT ![currentEl] =
            Slice(@, 0, liveStartIdx) \o SliceFrom(@, liveStartIdx + livePrevLen)]
    ELSE value

\* C5: when the connection the script refers to closes without the script having
\* closed it, while the client is Starting, Streaming or Stopping, the client is
\* Closed after the close event: capture released, ws null, live text removed,
\* button idle, and nothing but the live text changed in the fields.
C5_CloseReachesClosed ==
    [][\A s \in Acts :
        (WsClosed(s) /\ s = ws /\ sock[s] \in {"CONNECTING", "OPEN"}
            /\ (Starting \/ Streaming \/ Stopping)) =>
            (Closed' /\ value' = WithoutLive)
      ]_vars

\* ---------------------------------------------------------------------- C7

\* C7: a final received on the connection of a Stopping client leaves the client
\* Closed with everything released: that socket closing or closed and ws null,
\* capture released, isRecording false, throttle and live-insertion state at
\* their initial values, button idle.
C7_FinalReleasesAll ==
    [][\A s \in Acts : \A t \in Finals :
        (RecvFinal(s, t) /\ Stopping /\ s = ws) =>
            /\ sock'[s] \in {"CLOSING", "CLOSED"}
            /\ ws' = Null
            /\ micStream' = Null
            /\ ~DeviceHeld'
            /\ ~isRecording'
            /\ lastPartial' = Empty
            /\ lastPartialTs' = 0
            /\ liveStartIdx' = NullIdx
            /\ livePrevLen' = 0
            /\ btn' = "idle"
      ]_vars

\* ---------------------------------------------------------------------- C6

\* The value of field el with text put in place of its selection.
AtCaret(el, text) ==
    Slice(value[el], 0, sel[el][1]) \o text \o SliceFrom(value[el], sel[el][2])

\* C6: when the final arrives on the session's connection and the target field is
\* the one the session's partials were shown in, the field becomes
\* before + final + after, with before and after the text on each side of the
\* caret when the session's first partial was shown; when the session showed no
\* partial, the final is inserted at the caret.
C6_FinalReplacesLive ==
    [][\A s \in Acts : \A t \in Finals :
        (RecvFinal(s, t) /\ s = ws /\ currentEl # Null) =>
            IF shown[s] = << >>
            THEN value'[currentEl] = AtCaret(currentEl, Trim(t))
            ELSE (shown[s][1].el = currentEl) =>
                    value'[currentEl] = shown[s][1].before \o Trim(t) \o shown[s][1].after
      ]_vars

\* ---------------------------------------------------------------------- C8

\* Invocation k of startRecording ended without having acquired a stream.
DeviceFailed(k) == pc[k] = "done" /\ streams[k] = "none"

Idle ==
    /\ ~isRecording
    /\ ws = Null
    /\ micStream = Null
    /\ btn = "idle"

NumStart(q) == Cardinality({i \in 1..Len(q) : q[i] = "start"})

\* C9: no connection carries more than one start, an open connection carries
\* exactly one, and on every connection start precedes every audio message.
C9_OneStartFirst ==
    \A s \in Acts :
        /\ NumStart(sent[s]) <= 1
        /\ sock[s] = "OPEN" => NumStart(sent[s]) = 1
        /\ \A i \in 1..Len(sent[s]) :
            sent[s][i] = "audio" => \E j \in 1..(i - 1) : sent[s][j] = "start"

\* --------------------------------------------------------------------- C10

\* A step of the script that sends cancel on the session's connection and leaves
\* the client Closed with the fields as they were without the live text.
CancelStep ==
    /\ Next
    /\ sent'[ws] = Append(sent[ws], "cancel")
    /\ Closed'
    /\ value' = WithoutLive

\* C10: in every Streaming state the user can invoke a cancel: a step that sends
\* cancel, leaves the client Closed and inserts no transcript.
C10_CancelAvailable == Streaming => ENABLED CancelStep

\* ------------------------------------------------- the resampler, called

\* Length of the blocks handed to downsampleFloat32.
MaxLen == 4
\* Sample values, in 1/SampleUnit: -1.5, -1, -0.5, 0.5 and 1.5.
Samples == {0 - 3, 0 - 2, 0 - 1, 1, 3}
ResampleRates == {8000, 16000, 24000, 44100, 48000}

Buffers == UNION {[1..n -> Samples] : n \in 0..MaxLen}

\* One call of downsampleFloat32 on the caller's block.
Resample ==
    /\ rs.calls < 2
    /\ rs' = [rs EXCEPT !.calls = @ + 1,
                        !.out = Append(@, downsampleFloat32(rs.buffer, rs.inRate, rs.outRate)),
                        !.at = Append(@, now)]
    /\ UNCHANGED <<streamVars, batch, srv, popup>>

ResampleInit ==
    /\ StreamInit
    /\ batch = BatchInit(RECORD_SAMPLE_RATE)
    /\ \E b \in Buffers : \E i, o \in ResampleRates : rs = RsInit(Float32Array(b), i, o)
    /\ srv = SrvInit
    /\ popup = PopupInit(NoEndpoint, {DefaultEndpoint})

\* A caller that resamples one block twice while the clock of the page runs.
NextResample ==
    \/ Resample
    \/ Tick

SpecResample == ResampleInit /\ [][NextResample]_vars

\* The outputs of the calls made with a lower output rate.
Decimated == IF rs.outRate < rs.inRate THEN {rs.out[c] : c \in 1..Len(rs.out)} ELSE {}
\* The outputs of the calls made with an output rate that is not lower.
PassedThrough == IF rs.outRate >= rs.inRate THEN {rs.out[c] : c \in 1..Len(rs.out)} ELSE {}

\* ---------------------------------------------------------------------- C15

\* C15: for Rout < Rin the output has exactly floor(L / (Rin / Rout)) samples:
\* the one n with n * Rin <= L * Rout < (n + 1) * Rin.
C15_DecimatedLength ==
    \A o \in Decimated :
        LET n == Len(o.data)
            L == Len(rs.buffer.data)
        IN /\ o.type = "i16"
           /\ n * rs.inRate <= L * rs.outRate
           /\ L * rs.outRate < (n + 1) * rs.inRate

\* A block of four samples was resampled from 44100 and from 24000 to 16000.
C15_Witness ==
    /\ Decimated # {}
    /\ Len(rs.buffer.data) = MaxLen
    /\ rs.inRate \in {24000, 44100}
    /\ rs.outRate = 16000
    /\ \A o \in Decimated : Len(o.data) = (IF rs.inRate = 24000 THEN 2 ELSE 1)

\* ---------------------------------------------------------------------- C16

\* The input indices (from 0) that output sample k (from 0) averages.
WindowOf(k) ==
    {i \in 0..(Len(rs.buffer.data) - 1) :
        /\ (k * rs.inRate) \div rs.outRate <= i
        /\ i < ((k + 1) * rs.inRate) \div rs.outRate}

RECURSIVE SumOver(_, _)
SumOver(data, idx) ==
    IF idx = {} THEN 0
    ELSE LET i == CHOOSE j \in idx : TRUE IN data[i + 1] + SumOver(data, idx \ {i})

\* The 16-bit value of the number n / d, d > 0: clamped to [-1, 1], times 32767
\* when it is not negative and times 32768 when it is, fraction dropped.
PcmAsymmetric(n, d) ==
    LET c == IF n > d THEN d ELSE IF n < 0 - d THEN 0 - d ELSE n
    IN IF c < 0 THEN 0 - (((0 - c) * PCM_NEG) \div d) ELSE (c * PCM_POS) \div d

\* C16: each decimated output sample is the average of its window, clamped and
\* scaled by 32767 when non-negative and by 32768 when negative.
C16_DecimatedScaling ==
    \A o \in Decimated :
        \A k \in 0..(Len(o.data) - 1) :
            LET w == WindowOf(k) IN
            w # {} =>
                o.data[k + 1] =
                    PcmAsymmetric(SumOver(rs.buffer.data, w), SampleUnit * Cardinality(w))

\* ---------------------------------------------------------------------- C17

\* C17: for Rout >= Rin the output has the length of the input and each sample
\* is the input sample clamped and scaled by 32767 when non-negative and by
\* 32768 when negative.
C17_PassThrough ==
    \A o \in PassedThrough :
        /\ o.type = "i16"
        /\ Len(o.data) = Len(rs.buffer.data)
        /\ \A i \in 1..Len(o.data) :
            o.data[i] = PcmAsymmetric(rs.buffer.data[i], SampleUnit)

\* A block with a sample above 1, one below -1 and -1 itself went through at a
\* higher output rate.
C17_Witness ==
    /\ PassedThrough # {}
    /\ rs.outRate > rs.inRate
    /\ \E i, j, l \in 1..Len(rs.buffer.data) :
        /\ rs.buffer.data[i] = 0 - 3
        /\ rs.buffer.data[j] = 0 - 2
        /\ rs.buffer.data[l] = 3
        /\ \A o \in PassedThrough :
            o.data[i] = 0 - PCM_NEG /\ o.data[j] = 0 - PCM_NEG /\ o.data[l] = PCM_POS

\* ---------------------------------------------------------------------- C18

BCommit(b) ==
    /\ batch' = b
    /\ UNCHANGED <<streamVars, rs, srv, popup>>

Batch_resetBtn(b) == [b EXCEPT !.btn = "idle"]
Batch_setBtnRecording(b) == [b EXCEPT !.btn = "recording"]
Batch_setBtnProcessing(b) == [b EXCEPT !.btn = "processing"]

Batch_insertTextAtCursor(b, el, text) ==
    LET start == b.sel[el][1]
        end == b.sel[el][2]
        newValue == Slice(b.value[el], 0, start) \o text \o SliceFrom(b.value[el], end)
        caret == Min(start + Len(text), Len(newValue))
    IN [b EXCEPT !.value[el] = newValue, !.sel[el] = <<caret, caret>>]

\* Stops the graph and the stream the script refers to and clears the timer it
\* refers to.
cleanupRecording(b) ==
    LET b1 == IF b.micStream # Null
              THEN [b EXCEPT !.streams[b.micStream] = "released", !.micStream = Null]
              ELSE b
    IN IF b1.maxRecordingTimer # Null
       THEN [b1 EXCEPT !.timers[b1.maxRecordingTimer] = "cleared", !.maxRecordingTimer = Null]
       ELSE b1

RECURSIVE Concat(_)
Concat(chunks) == IF chunks = << >> THEN << >> ELSE Head(chunks).data \o Concat(Tail(chunks))

\* The finally block of stopRecording.
\* A finally block that only resets the button.
Batch_stopFinally_KeepChunks(b, j) ==
    [Batch_resetBtn(b) EXCEPT !.spc[j] = "done", !.body[j] = << >>]

Batch_stopFinally(b, j) ==
    [Batch_resetBtn(b) EXCEPT !.recordedChunks = << >>, !.spc[j] = "done", !.body[j] = << >>]

\* A stopRecording without its test for no audio.
Batch_stopRecording_AlwaysPost(b) ==
    IF ~b.isRecording
    THEN b
    ELSE LET j == b.nStops + 1
             b1 == Batch_setBtnProcessing([b EXCEPT !.isRecording = FALSE, !.nStops = j])
             b2 == cleanupRecording(b1)
             combinedAudio == Concat(b2.recordedChunks)
         IN [b2 EXCEPT !.spc[j] = "url", !.body[j] = combinedAudio,
                       !.expected[j] = b.captured, !.captured = << >>]

\* A stopRecording without its isRecording test.
Batch_stopRecording_Unguarded(b) ==
    LET j == b.nStops + 1
        b1 == Batch_setBtnProcessing([b EXCEPT !.isRecording = FALSE, !.nStops = j])
        b2 == cleanupRecording(b1)
        combinedAudio == Concat(b2.recordedChunks)
    IN IF Len(combinedAudio) = 0
       THEN Batch_stopFinally(Batch_resetBtn([b2 EXCEPT !.captured = << >>]), j)
       ELSE [b2 EXCEPT !.spc[j] = "url", !.body[j] = combinedAudio,
                       !.expected[j] = b.captured, !.captured = << >>]

\* stopRecording up to its first await.
Batch_stopRecording(b) ==
    IF ~b.isRecording
    THEN b
    ELSE LET j == b.nStops + 1
             b1 == Batch_setBtnProcessing([b EXCEPT !.isRecording = FALSE, !.nStops = j])
             b2 == cleanupRecording(b1)
             combinedAudio == Concat(b2.recordedChunks)
         IN IF Len(combinedAudio) = 0
            THEN Batch_stopFinally(Batch_resetBtn([b2 EXCEPT !.captured = << >>]), j)
            ELSE [b2 EXCEPT !.spc[j] = "url", !.body[j] = combinedAudio,
                            !.expected[j] = b.captured, !.captured = << >>]

\* The largest r in lo..hi with r * r <= x.
RECURSIVE IsqrtIn(_, _, _)
IsqrtIn(x, lo, hi) ==
    IF lo >= hi THEN lo
    ELSE LET mid == (lo + hi + 1) \div 2
         IN IF mid * mid <= x THEN IsqrtIn(x, mid, hi) ELSE IsqrtIn(x, lo, mid - 1)

\* downsampled.reduce((s, v) => s + v * v, 0) / downsampled.length over the
\* indices lo..hi, as <<q, r>>: the sum of the squares is q * length + r with
\* r < length.  The sum is taken by halves, which keeps the numbers small.
RECURSIVE MeanSq(_, _, _)
MeanSq(data, lo, hi) ==
    IF lo > hi THEN <<0, 0>>
    ELSE IF lo = hi
    THEN <<(data[lo] * data[lo]) \div Len(data), (data[lo] * data[lo]) % Len(data)>>
    ELSE LET a == MeanSq(data, lo, (lo + hi) \div 2)
             b == MeanSq(data, ((lo + hi) \div 2) + 1, hi)
         IN IF a[2] + b[2] >= Len(data)
            THEN <<a[1] + b[1] + 1, a[2] + b[2] - Len(data)>>
            ELSE <<a[1] + b[1], a[2] + b[2]>>

\* Math.sqrt(sum of squares / length) || 0, rounded down.
Rms(data) ==
    IF Len(data) = 0 THEN 0 ELSE IsqrtIn(MeanSq(data, 1, Len(data))[1], 0, PCM_NEG)

\* The count of the zero-crossing loop.
ZeroCrossings(data) == Cardinality({i \in 2..Len(data) : data[i] * data[i - 1] < 0})

\* noiseFloor * 0.95 + rms * 0.05, in 1/NoiseUnit
NoiseFloorAfter(noiseFloor, rms) == (noiseFloor * 19 + rms * NoiseUnit) \div 20

\* A classification against the noise floor of before the block.
VoiceCandidate_StaleFloor(noiseFloor, data) ==
    LET rms == Rms(data)
    IN /\ Len(data) > 0
       /\ 50 * ZeroCrossings(data) > Len(data)
       /\ 2 * rms * NoiseUnit > 7 * noiseFloor

\* rms > noiseFloor * 3.5 && zcr > 0.02, with the updated noiseFloor
VoiceCandidate(noiseFloor, data) ==
    LET rms == Rms(data)
    IN /\ Len(data) > 0
       /\ 50 * ZeroCrossings(data) > Len(data)
       /\ 2 * rms * NoiseUnit > 7 * NoiseFloorAfter(noiseFloor, rms)

\* A VAD whose voice frame count starts over at a non-candidate block.
vadUpdate_Restart(b, data) ==
    LET cand == VoiceCandidate(b.noiseFloor, data)
        b1 == [b EXCEPT !.noiseFloor = NoiseFloorAfter(b.noiseFloor, Rms(data)),
                        !.vadHistory = Min(b.vadHistory + 1, VAD_HISTORY_MAX),
                        !.fed = IF Len(@) < FedLen THEN Append(@, cand) ELSE @,
                        !.heard = IF Len(@) < FedLen THEN Append(@, data) ELSE @,
                        !.quietRun = IF cand THEN 0 ELSE @ + 1]
    IN IF cand
       THEN LET b2 == [b1 EXCEPT !.voiceDetectedFrames = @ + 1, !.silenceFrames = 0]
            IN IF ~b2.hasDetectedVoice /\ b2.voiceDetectedFrames > ONSET_FRAMES
               THEN [b2 EXCEPT !.hasDetectedVoice = TRUE, !.onsets = @ + 1]
               ELSE b2
       ELSE [b1 EXCEPT !.silenceFrames = IF b1.hasDetectedVoice THEN @ + 1 ELSE @,
                       !.voiceDetectedFrames = 0]

\* A VAD that counts silence before voice is confirmed and stops on it.
vadUpdate_SilenceAlways(b, data) ==
    LET cand == VoiceCandidate(b.noiseFloor, data)
        b1 == [b EXCEPT !.noiseFloor = NoiseFloorAfter(b.noiseFloor, Rms(data)),
                        !.vadHistory = Min(b.vadHistory + 1, VAD_HISTORY_MAX),
                        !.fed = IF Len(@) < FedLen THEN Append(@, cand) ELSE @,
                        !.heard = IF Len(@) < FedLen THEN Append(@, data) ELSE @,
                        !.quietRun = IF cand THEN 0 ELSE @ + 1]
    IN IF cand
       THEN LET b2 == [b1 EXCEPT !.voiceDetectedFrames = @ + 1, !.silenceFrames = 0]
            IN IF ~b2.hasDetectedVoice /\ b2.voiceDetectedFrames > ONSET_FRAMES
               THEN [b2 EXCEPT !.hasDetectedVoice = TRUE, !.onsets = @ + 1]
               ELSE b2
       ELSE [b1 EXCEPT !.silenceFrames = @ + 1,
                       !.hasDetectedVoice = @ \/ b1.silenceFrames >= SILENCE_FRAMES,
                       !.voiceDetectedFrames = IF @ > 0 THEN @ - 1 ELSE 0]

\* A VAD whose voice frame count decays without a floor.
vadUpdate_NoFloor(b, data) ==
    LET cand == VoiceCandidate(b.noiseFloor, data)
        b1 == [b EXCEPT !.noiseFloor = NoiseFloorAfter(b.noiseFloor, Rms(data)),
                        !.vadHistory = Min(b.vadHistory + 1, VAD_HISTORY_MAX),
                        !.fed = IF Len(@) < FedLen THEN Append(@, cand) ELSE @,
                        !.heard = IF Len(@) < FedLen THEN Append(@, data) ELSE @,
                        !.quietRun = IF cand THEN 0 ELSE @ + 1]
    IN IF cand
       THEN LET b2 == [b1 EXCEPT !.voiceDetectedFrames = @ + 1, !.silenceFrames = 0]
            IN IF ~b2.hasDetectedVoice /\ b2.voiceDetectedFrames > ONSET_FRAMES
               THEN [b2 EXCEPT !.hasDetectedVoice = TRUE, !.onsets = @ + 1]
               ELSE b2
       ELSE [b1 EXCEPT !.silenceFrames = IF b1.hasDetectedVoice THEN @ + 1 ELSE @,
                       !.voiceDetectedFrames = @ - 1]

\* A VAD that confirms voice one block early.
vadUpdate_EarlyOnset(b, data) ==
    LET cand == VoiceCandidate(b.noiseFloor, data)
        b1 == [b EXCEPT !.noiseFloor = NoiseFloorAfter(b.noiseFloor, Rms(data)),
                        !.vadHistory = Min(b.vadHistory + 1, VAD_HISTORY_MAX),
                        !.fed = IF Len(@) < FedLen THEN Append(@, cand) ELSE @,
                        !.heard = IF Len(@) < FedLen THEN Append(@, data) ELSE @,
                        !.quietRun = IF cand THEN 0 ELSE @ + 1]
    IN IF cand
       THEN LET b2 == [b1 EXCEPT !.voiceDetectedFrames = @ + 1, !.silenceFrames = 0]
            IN IF ~b2.hasDetectedVoice /\ b2.voiceDetectedFrames > ONSET_FRAMES - 1
               THEN [b2 EXCEPT !.hasDetectedVoice = TRUE, !.onsets = @ + 1]
               ELSE b2
       ELSE [b1 EXCEPT !.silenceFrames = IF b1.hasDetectedVoice THEN @ + 1 ELSE @,
                       !.voiceDetectedFrames = IF @ > 0 THEN @ - 1 ELSE 0]

\* The VAD part of onaudioprocess, up to the auto-stop test.
vadUpdate(b, data) ==
    LET cand == VoiceCandidate(b.noiseFloor, data)
        b1 == [b EXCEPT !.noiseFloor = NoiseFloorAfter(b.noiseFloor, Rms(data)),
                        !.vadHistory = Min(b.vadHistory + 1, VAD_HISTORY_MAX),
                        !.fed = IF Len(@) < FedLen THEN Append(@, cand) ELSE @,
                        !.heard = IF Len(@) < FedLen THEN Append(@, data) ELSE @,
                        !.quietRun = IF cand THEN 0 ELSE @ + 1]
    IN IF cand
       THEN LET b2 == [b1 EXCEPT !.voiceDetectedFrames = @ + 1, !.silenceFrames = 0]
            IN IF ~b2.hasDetectedVoice /\ b2.voiceDetectedFrames > ONSET_FRAMES
               THEN [b2 EXCEPT !.hasDetectedVoice = TRUE, !.onsets = @ + 1]
               ELSE b2
       ELSE [b1 EXCEPT !.silenceFrames = IF b1.hasDetectedVoice THEN @ + 1 ELSE @,
                       !.voiceDetectedFrames = IF @ > 0 THEN @ - 1 ELSE 0]

\* An onaudioprocess that stops one silent block early.
Batch_onaudioprocess_EarlyStop(b, input) ==
    LET downsampled == downsampleFloat32(input, b.sampleRate, RECORD_SAMPLE_RATE)
        pcm == floatTo16BitPCM(downsampled)
        b1 == [b EXCEPT !.recordedChunks = Append(@, pcm),
                        !.captured = @ \o pcm.data]
        b2 == vadUpdate(b1, downsampled.data)
    IN IF b2.hasDetectedVoice /\ b2.silenceFrames > SILENCE_FRAMES - 1
       THEN Batch_stopRecording(b2)
       ELSE b2

\* procNode.onaudioprocess with the input block input.
Batch_onaudioprocess(b, input) ==
    LET downsampled == downsampleFloat32(input, b.sampleRate, RECORD_SAMPLE_RATE)
        pcm == floatTo16BitPCM(downsampled)
        b1 == [b EXCEPT !.recordedChunks = Append(@, pcm),
                        !.captured = @ \o pcm.data]
        b2 == vadUpdate(b1, downsampled.data)
    IN IF b2.hasDetectedVoice /\ b2.silenceFrames > SILENCE_FRAMES
       THEN Batch_stopRecording(b2)
       ELSE b2

\* ---------------------------------------------------- batch script actions

Batch_FocusIn(t) ==
    /\ t \in batch.present
    /\ BCommit(IF batch.currentEl # Null /\ batch.currentEl \in batch.present
               THEN batch
               ELSE [batch EXCEPT !.currentEl = t])

Batch_RemoveEl(e) ==
    /\ e \in batch.present
    /\ BCommit([batch EXCEPT !.present = @ \ {e},
                             !.currentEl = IF @ = e THEN Null ELSE @])

\* Click on the mic button while recording.
Batch_ClickStop ==
    /\ batch.currentEl # Null
    /\ batch.isRecording
    /\ BCommit(Batch_stopRecording(batch))

\* Click on the mic button while not recording: startRecording up to its await.
Batch_ClickStart ==
    /\ batch.currentEl # Null
    /\ ~batch.isRecording
    /\ batch.nStarts < MaxBatchStarts
    /\ BCommit([batch EXCEPT !.nStarts = @ + 1, !.pc[batch.nStarts + 1] = "media"])

\* A start that keeps the noise floor and the frame counts of the session before.
Batch_MediaResolved_KeepVad(k) ==
    /\ batch.pc[k] = "media"
    /\ BCommit(Batch_setBtnRecording(
            [batch EXCEPT !.pc[k] = "done",
                          !.micStream = k,
                          !.streams[k] = "live",
                          !.recordedChunks = << >>,
                          !.vadHistory = 0,
                          !.silenceFrames = 0,
                          !.hasDetectedVoice = FALSE,
                          !.isRecording = TRUE,
                          !.maxRecordingTimer = k,
                          !.timers[k] = "armed",
                          !.epochs = IF batch.isRecording THEN @ ELSE @ + 1,
                          !.captured = IF batch.isRecording THEN @ ELSE << >>,
                          !.onsets = 0,
                          !.fed = << >>,
                          !.heard = << >>,
                          !.quietRun = 0]))

\* getUserMedia resolves for invocation k: the rest of the try block.
Batch_MediaResolved(k) ==
    /\ batch.pc[k] = "media"
    /\ BCommit(Batch_setBtnRecording(
            [batch EXCEPT !.pc[k] = "done",
                          !.micStream = k,
                          !.streams[k] = "live",
                          !.recordedChunks = << >>,
                          !.vadHistory = 0,
                          !.noiseFloor = NOISE_FLOOR_SEED,
                          !.voiceDetectedFrames = 0,
                          !.silenceFrames = 0,
                          !.hasDetectedVoice = FALSE,
                          !.isRecording = TRUE,
                          !.maxRecordingTimer = k,
                          !.timers[k] = "armed",
                          !.epochs = IF batch.isRecording THEN @ ELSE @ + 1,
                          !.captured = IF batch.isRecording THEN @ ELSE << >>,
                          !.onsets = 0,
                          !.fed = << >>,
                          !.heard = << >>,
                          !.quietRun = 0]))

\* getUserMedia rejects for invocation k: the catch block.
Batch_MediaRejected(k) ==
    /\ batch.pc[k] = "media"
    /\ BCommit(Batch_resetBtn(cleanupRecording([batch EXCEPT !.pc[k] = "done"])))

\* The ScriptProcessorNode of invocation k delivers a block.  With audioCtx null
\* the handler throws before it changes anything.
Batch_AudioProcess(k, input) ==
    /\ batch.streams[k] = "live"
    /\ batch.micStream # Null
    /\ BCommit(Batch_onaudioprocess(
            [batch EXCEPT !.nBlocks = @ + 1,
                          !.switches = IF batch.nBlocks = 0 \/ input = batch.lastBlock
                                       THEN @ ELSE @ + 1,
                          !.tones = IF input \in {ToneBlock, LoudBlock} THEN @ + 1 ELSE @,
                          !.lastBlock = input],
            input))

\* The 30 s timeout armed by invocation k fires: its callback stops the recording
\* in progress, and does nothing when there is none.
Batch_TimerFires(k) ==
    /\ batch.timers[k] = "armed"
    /\ BCommit(Batch_stopRecording(
            [batch EXCEPT !.timers[k] = IF batch.isRecording THEN "fired" ELSE "ignored"]))

\* getServerUrl resolves for invocation j of stopRecording: fetch posts the audio.
Batch_UrlResolved(j) ==
    /\ batch.spc[j] = "url"
    /\ BCommit([batch EXCEPT !.spc[j] = "fetch", !.posts = @ + 1,
                             !.body[j] = << >>, !.expected[j] = << >>])

\* The response arrives with {text: raw}.
Batch_Response(j, raw) ==
    /\ batch.spc[j] = "fetch"
    /\ LET text == Trim(raw)
           b1 == IF batch.currentEl # Null /\ text # Empty
                 THEN Batch_insertTextAtCursor(batch, batch.currentEl, text)
                 ELSE batch
       IN BCommit(Batch_stopFinally(b1, j))

\* fetch rejects, the status is not OK, or the body is not JSON or has an error.
Batch_ResponseFails(j) ==
    /\ batch.spc[j] = "fetch"
    /\ BCommit(Batch_stopFinally(batch, j))

\* ------------------------------------------------ batch script, one session

\* Blocks per run, changes of the input from one block to the next, and tone
\* blocks per run.
MaxBlocks == 56
MaxSwitches == 3
MaxTones == 7

\* The first click that starts a recording.
Batch_FirstClickStart == batch.nStarts = 0 /\ Batch_ClickStart

\* A block of silence or of tone, in a run of at most MaxBlocks blocks whose
\* input changes at most MaxSwitches times and has at most MaxTones tone blocks.
Batch_LongRunBlock(k, input) ==
    /\ batch.nBlocks < MaxBlocks
    /\ (input # ZeroBlock => batch.tones < MaxTones)
    /\ (batch.nBlocks = 0 \/ input = batch.lastBlock \/ batch.switches < MaxSwitches)
    /\ Batch_AudioProcess(k, input)

\* A device whose AudioContext runs at twice the recording rate.
VADInit ==
    /\ StreamInit
    /\ rs = RsInit(Float32Array(<< >>), RECORD_SAMPLE_RATE, RECORD_SAMPLE_RATE)
    /\ batch = BatchInit(2 * RECORD_SAMPLE_RATE)
    /\ srv = SrvInit
    /\ popup = PopupInit(NoEndpoint, {DefaultEndpoint})

\* The batch script from page load through its first recording, fed long runs
\* of silence and tone.
NextVAD ==
    \/ Batch_FocusIn(1)
    \/ Batch_FirstClickStart
    \/ \E k \in BActs : Batch_MediaResolved(k)
    \/ \E k \in BActs : Batch_MediaRejected(k)
    \/ \E k \in BActs : \E input \in {ZeroBlock, ToneBlock, LoudBlock} : Batch_LongRunBlock(k, input)
    \/ Batch_ClickStop
    \/ \E k \in BActs : Batch_TimerFires(k)
    \/ \E j \in BActs : Batch_UrlResolved(j)
    \/ \E j \in BActs : \E raw \in Finals : Batch_Response(j, raw)
    \/ \E j \in BActs : Batch_ResponseFails(j)

SpecVAD == VADInit /\ [][NextVAD]_vars

\* ---------------------------------------------------------------------- C11

\* The first n candidate decisions of the session were: voice.
FirstVoiced(n) == Len(batch.fed) >= n /\ \A i \in 1..n : batch.fed[i]

\* C11: after four candidate blocks and one non-candidate block voice is not
\* confirmed; five candidate blocks do not confirm it; from the sixth of six
\* consecutive candidate blocks on it is confirmed and the session has had
\* exactly one onset notification, whatever blocks follow.
C11_OnsetHysteresis ==
    /\ (Len(batch.fed) <= 5 /\ FirstVoiced(Min(Len(batch.fed), 4))) =>
            (~batch.hasDetectedVoice /\ batch.onsets = 0)
    /\ FirstVoiced(6) => (batch.hasDetectedVoice /\ batch.onsets = 1)
    /\ batch.onsets <= 1

\* Six candidate blocks confirmed voice, and a later block of the session was a
\* candidate again.
C11_Witness ==
    /\ FirstVoiced(6)
    /\ batch.nBlocks > 7
    /\ batch.quietRun = 0
    /\ batch.voiceDetectedFrames > ONSET_FRAMES
    /\ batch.hasDetectedVoice
    /\ batch.onsets = 1

\* ---------------------------------------------------------------------- C12

\* A step in which the recording session receives an input block.
BlockStep == batch.isRecording /\ batch'.nBlocks = batch.nBlocks + 1

\* C12: a block ends the recording exactly when voice has been confirmed and
\* the block is the 46th of a run of consecutive non-candidate blocks; a
\* candidate block sets the silence count to 0, and once voice is confirmed the
\* silence count is the length of the current run of non-candidate blocks.
C12_SilenceStops ==
    /\ [](batch.hasDetectedVoice => batch.silenceFrames = batch.quietRun)
    /\ [][BlockStep =>
            /\ ~batch'.isRecording <=>
                    (batch'.hasDetectedVoice /\ batch'.quietRun = SILENCE_FRAMES + 1)
            /\ batch'.quietRun = 0 => batch'.silenceFrames = 0]_vars

\* Voice was confirmed on block 6, block 7 was silent, block 8 was a candidate
\* again, and the 46th silent block after it, block 54, stopped the recording.
C12_Witness ==
    /\ FirstVoiced(6)
    /\ Len(batch.fed) = 8 /\ ~batch.fed[7] /\ batch.fed[8]
    /\ batch.nBlocks = 8 + SILENCE_FRAMES + 1
    /\ batch.quietRun = SILENCE_FRAMES + 1
    /\ ~batch.isRecording
    /\ batch.nStops = 1
    /\ batch.spc[1] = "url"

\* ------------------------------------------ batch script, several sessions

\* Blocks per run.
MaxShortBlocks == 6

\* A block of silence or of tone, in a run of at most MaxShortBlocks blocks.
Batch_ShortRunBlock(k, input) ==
    /\ batch.nBlocks < MaxShortBlocks
    /\ Batch_AudioProcess(k, input)

\* A device whose AudioContext runs at the recording rate.
BatchSpecInit ==
    /\ StreamInit
    /\ rs = RsInit(Float32Array(<< >>), RECORD_SAMPLE_RATE, RECORD_SAMPLE_RATE)
    /\ batch = BatchInit(RECORD_SAMPLE_RATE)
    /\ srv = SrvInit
    /\ popup = PopupInit(NoEndpoint, {DefaultEndpoint})

\* The batch script with up to MaxBatchStarts clicks that start a recording, on
\* a page that may drop its first editable element.
NextBatch ==
    \/ \E t \in Els : Batch_FocusIn(t)
    \/ Batch_RemoveEl(1)
    \/ Batch_ClickStart
    \/ Batch_ClickStop
    \/ \E k \in BActs : Batch_MediaResolved(k)
    \/ \E k \in BActs : Batch_MediaRejected(k)
    \/ \E k \in BActs : \E input \in {ZeroBlock, ToneBlock} : Batch_ShortRunBlock(k, input)
    \/ \E k \in BActs : Batch_TimerFires(k)
    \/ \E j \in BActs : Batch_UrlResolved(j)
    \/ \E j \in BActs : \E raw \in Finals : Batch_Response(j, raw)
    \/ \E j \in BActs : Batch_ResponseFails(j)

SpecBatch == BatchSpecInit /\ [][NextBatch]_vars

\* ---------------------------------------------------------------------- C13

VadState(b) ==
    [noiseFloor |-> b.noiseFloor, vadHistory |-> b.vadHistory,
     voiceDetectedFrames |-> b.voiceDetectedFrames, silenceFrames |-> b.silenceFrames,
     hasDetectedVoice |-> b.hasDetectedVoice, fed |-> b.fed, heard |-> b.heard,
     quietRun |-> b.quietRun, onsets |-> b.onsets]

\* The VAD state v after the blocks of seq.
RECURSIVE VadFold(_, _)
VadFold(v, seq) == IF seq = << >> THEN v ELSE VadFold(vadUpdate(v, Head(seq)), Tail(seq))

\* A step in which a recording starts.
StartStep == \E k \in BActs : batch.pc[k] = "media" /\ batch'.streams[k] = "live"

\* C14: a start leaves noiseFloor 0.002, an empty history, both frame counts 0
\* and hasDetectedVoice false, and at any time the VAD state and its decisions
\* are those of a freshly loaded script fed the blocks of the current session
\* alone, whatever earlier sessions did.
C14_FreshVad ==
    /\ [](Len(batch.heard) < FedLen =>
            VadState(batch) = VadFold(VadState(BatchInit(batch.sampleRate)), batch.heard))
    /\ [][StartStep =>
            /\ batch'.noiseFloor = NOISE_FLOOR_SEED
            /\ batch'.vadHistory = 0
            /\ batch'.voiceDetectedFrames = 0
            /\ batch'.silenceFrames = 0
            /\ ~batch'.hasDetectedVoice]_vars

\* A first session heard five tone blocks; the second session has heard one
\* tone block, counts one voice frame and has not confirmed voice.
C14_Witness ==
    /\ batch.epochs = 2
    /\ batch.isRecording
    /\ batch.tones = 6
    /\ Len(batch.heard) = 1
    /\ batch.fed = <<TRUE>>
    /\ batch.voiceDetectedFrames = 1
    /\ ~batch.hasDetectedVoice

\* ---------------------------------------------------------------------- C19

\* C19: a session uploads the in-order concatenation of every block captured
\* since it began: while a recording is in progress the chunks that a stop
\* would combine are all the samples captured in the session, a stop that
\* finds captured samples begins one upload of exactly them, and a request
\* carries the audio its stop combined.
C19_CompleteUtterance ==
    /\ [](batch.isRecording => Concat(batch.recordedChunks) = batch.captured)
    /\ [](\A j \in BActs : batch.spc[j] = "url" =>
            (batch.body[j] = batch.expected[j] /\ batch.body[j] # << >>))
    /\ [][(batch'.nStops # batch.nStops /\ batch'.nBlocks = batch.nBlocks
                /\ batch.captured # << >>) =>
            /\ batch'.spc[batch'.nStops] = "url"
            /\ batch'.body[batch'.nStops] = batch.captured]_vars

\* ---------------------------------------------------------------------- C20

\* A step that handles a Partial, Final, Error or close event of socket s while
\* the script refers to another, later socket.
StaleEvent(s) ==
    /\ ws # Null
    /\ ws # s
    /\ \/ \E t \in Hyps : RecvPartial(s, t)
       \/ \E t \in Finals : RecvFinal(s, t)
       \/ RecvError(s)
       \/ WsClosed(s)

\* C20: an event of an earlier connection changes nothing of the later
\* session: its socket stays referred to and in its state, its capture stays
\* held, the recording flag keeps its value, and the fields and the position
\* of the live text stay as they are.
C20_NoStaleWork ==
    [][\A s \in Acts : StaleEvent(s) =>
            /\ ws' = ws
            /\ sock'[ws] = sock[ws]
            /\ micStream' = micStream
            /\ streams' = streams
            /\ isRecording' = isRecording
            /\ value' = value
            /\ liveStartIdx' = liveStartIdx
            /\ livePrevLen' = livePrevLen]_vars

\* ------------------------------------------------------- the server session

MaxChunks == 2
MaxSchedTicks == 3
MaxSrvTicks == 4

SCommit(s) ==
    /\ srv' = s
    /\ UNCHANGED <<streamVars, batch, rs, popup>>

Event(type, text) == [type |-> type, text |-> text]

Srv_emit(s, type, text) == [s EXCEPT !.out = Append(@, Event(type, text))]

\* The server ends the session and closes the connection.
Srv_close(s) == [s EXCEPT !.state = "Closed", !.open = FALSE]

\* Error{message}, then Closed.
Srv_fail(s, message) == Srv_close(Srv_emit(s, "error", <<message>>))

\* A start message that is accepted whatever its sampleRate.
Srv_onStart_AnyRate(s, sampleRate) ==
    CASE s.state = "AwaitingStart" ->
            [Srv_emit(s, "started", << >>) EXCEPT !.state = "Streaming", !.lastLoud = s.now]
      [] s.state = "Streaming" -> Srv_fail(s, "invalid_message")
      [] OTHER -> s

\* A start message that, in Streaming, begins the session again.
Srv_onStart_Restart(s, sampleRate) ==
    CASE s.state \in {"AwaitingStart", "Streaming"} ->
            IF sampleRate = REQUIRED_SAMPLE_RATE
            THEN [Srv_emit(s, "started", << >>) EXCEPT !.state = "Streaming",
                                                       !.acc = << >>,
                                                       !.lastLoud = s.now]
            ELSE Srv_fail(s, "unsupported_sample_rate")
      [] OTHER -> s

\* start{sampleRate}
Srv_onStart(s, sampleRate) ==
    CASE s.state = "AwaitingStart" ->
            IF sampleRate = REQUIRED_SAMPLE_RATE
            THEN [Srv_emit(s, "started", << >>) EXCEPT !.state = "Streaming", !.lastLoud = s.now]
            ELSE Srv_fail(s, "unsupported_sample_rate")
      [] s.state = "Streaming" -> Srv_fail(s, "invalid_message")
      [] OTHER -> s

\* The silence timer: now - last loud chunk against the silence duration.
Srv_checkSilence(s) ==
    IF s.state = "Streaming" /\ s.now - s.lastLoud > SILENCE_MS
    THEN [s EXCEPT !.state = "Finalizing", !.cause = "silence"]
    ELSE s

\* A binary message that is appended also while Finalizing.
Srv_onAudio_WhileFinalizing(s, loud) ==
    CASE s.state \in {"Streaming", "Finalizing"} ->
            Srv_checkSilence([s EXCEPT !.acc = Append(@, loud),
                                       !.got = @ + 1,
                                       !.lastLoud = IF loud THEN s.now ELSE @])
      [] s.state = "AwaitingStart" -> Srv_fail([s EXCEPT !.got = @ + 1], "invalid_message")
      [] OTHER -> [s EXCEPT !.got = @ + 1]

\* A binary message whose RMS is above the silence threshold (loud) or not.
Srv_onAudio(s, loud) ==
    CASE s.state = "Streaming" ->
            Srv_checkSilence([s EXCEPT !.acc = Append(@, loud),
                                       !.got = @ + 1,
                                       !.lastLoud = IF loud THEN s.now ELSE @])
      [] s.state = "AwaitingStart" -> Srv_fail([s EXCEPT !.got = @ + 1], "invalid_message")
      [] OTHER -> [s EXCEPT !.got = @ + 1]

\* stop
Srv_onStop(s) ==
    CASE s.state = "Streaming" -> [s EXCEPT !.state = "Finalizing", !.cause = "stop"]
      [] s.state = "AwaitingStart" -> Srv_fail(s, "invalid_message")
      [] OTHER -> s

\* cancel
Srv_onCancel(s) ==
    CASE s.state = "Streaming" -> Srv_close([s EXCEPT !.acc = << >>, !.cancelled = TRUE])
      [] s.state = "AwaitingStart" -> Srv_fail(s, "invalid_message")
      [] OTHER -> s

\* A scheduler tick that submits a decode whether or not one is running.
Srv_schedulerTick_Queueing(s) ==
    IF s.state # "Streaming"
    THEN s
    ELSE IF s.inflight > 0
         THEN [s EXCEPT !.ticks = @ + 1, !.queued = @ + 1, !.decodes = @ + 1]
         ELSE [s EXCEPT !.ticks = @ + 1, !.inflight = 1, !.decodes = @ + 1,
                        !.final = FALSE, !.input = s.acc]

\* A scheduler tick: the accumulator is submitted to the engine unless a decode
\* of the session is running.
Srv_schedulerTick(s) ==
    IF s.state # "Streaming"
    THEN s
    ELSE IF s.inflight > 0
         THEN [s EXCEPT !.ticks = @ + 1]
         ELSE [s EXCEPT !.ticks = @ + 1, !.inflight = 1, !.decodes = @ + 1,
                        !.final = FALSE, !.input = s.acc]

\* The five checks of the throttle, on the trimmed hypothesis.
Srv_throttle(s, text) ==
    /\ text # Empty
    /\ ~(Len(text) < PARTIAL_MIN_CHARS)
    /\ text # s.lastEmittedText
    /\ ~(s.now - s.lastEmitTimestamp < PARTIAL_DEBOUNCE_MS)
    /\ ~(StartsWith(s.lastEmittedText, text) /\ Len(text) < Len(s.lastEmittedText))

\* The running incremental decode returns the hypothesis hyp.
Srv_decodeDone(s, hyp) ==
    LET text == Trim(hyp)
        s1 == [s EXCEPT !.inflight = @ - 1, !.input = << >>]
    IN IF s1.state = "Streaming" /\ ~s1.cancelled /\ Srv_throttle(s1, text)
       THEN [Srv_emit(s1, "partial", text) EXCEPT !.lastEmittedText = text,
                                                  !.lastEmitTimestamp = s1.now]
       ELSE s1

\* The running decode fails.
Srv_decodeFails(s) ==
    LET s1 == [s EXCEPT !.inflight = @ - 1, !.input = << >>, !.final = FALSE]
    IN IF s1.state \in {"Streaming", "Finalizing"} /\ ~s1.cancelled
       THEN Srv_fail(s1, "decode_failed")
       ELSE s1

\* Finalizing: the one decode over the whole accumulator is submitted.
Srv_finalStart(s) ==
    [s EXCEPT !.inflight = 1, !.decodes = @ + 1, !.final = TRUE, !.input = s.acc]

\* The final decode returns text.
Srv_finalDone(s, text) ==
    LET s1 == [s EXCEPT !.inflight = @ - 1, !.input = << >>, !.final = FALSE]
    IN IF s1.state = "Finalizing" /\ ~s1.cancelled
       THEN Srv_close(Srv_emit(s1, "final", Trim(text)))
       ELSE s1

\* The transport closes: an implicit cancel.
Srv_onTransportClose(s) ==
    [s EXCEPT !.state = "Closed", !.open = FALSE, !.cancelled = TRUE, !.acc = << >>]

\* ------------------------------------------------------- server actions

\* A message arrives on the open connection of a session that has not ended.
SrvReads == srv.open /\ srv.state \in {"AwaitingStart", "Streaming", "Finalizing"}

SrvRecvStart(sampleRate) == SrvReads /\ SCommit(Srv_onStart(srv, sampleRate))

SrvRecvAudio(loud) ==
    /\ SrvReads
    /\ srv.got < MaxChunks
    /\ SCommit(Srv_onAudio(srv, loud))

SrvRecvStop == SrvReads /\ SCommit(Srv_onStop(srv))

SrvRecvCancel == SrvReads /\ SCommit(Srv_onCancel(srv))

SrvTransportClose == srv.open /\ SCommit(Srv_onTransportClose(srv))

SrvSchedulerTick ==
    /\ srv.state = "Streaming"
    /\ srv.ticks < MaxSchedTicks
    /\ SCommit(Srv_schedulerTick(srv))

SrvSilenceTick ==
    /\ srv.state = "Streaming"
    /\ srv.now - srv.lastLoud > SILENCE_MS
    /\ SCommit(Srv_checkSilence(srv))

SrvDecodeDone(hyp) ==
    /\ srv.inflight > 0
    /\ ~srv.final
    /\ SCommit(Srv_decodeDone(srv, hyp))

SrvDecodeFails ==
    /\ srv.inflight > 0
    /\ SCommit(Srv_decodeFails(srv))

SrvFinalStart ==
    /\ srv.state = "Finalizing"
    /\ srv.inflight = 0
    /\ SCommit(Srv_finalStart(srv))

SrvFinalDone(text) ==
    /\ srv.inflight > 0
    /\ srv.final
    /\ SCommit(Srv_finalDone(srv, text))

SrvClock ==
    /\ srv.now < MaxSrvTicks * SrvTickMs
    /\ SCommit([srv EXCEPT !.now = @ + SrvTickMs])

\* One connection of the server, with any client and any engine.
NextServer ==
    \/ \E r \in {8000, REQUIRED_SAMPLE_RATE} : SrvRecvStart(r)
    \/ \E loud \in BOOLEAN : SrvRecvAudio(loud)
    \/ SrvRecvStop
    \/ SrvRecvCancel
    \/ SrvTransportClose
    \/ SrvSchedulerTick
    \/ SrvSilenceTick
    \/ \E hyp \in {Blank, Hello, HelloWor} : SrvDecodeDone(hyp)
    \/ SrvDecodeFails
    \/ \E text \in Finals : SrvFinalDone(text)
    \/ SrvFinalStart
    \/ SrvClock

SpecServer == Init /\ [][NextServer]_vars

\* ---------------------------------------------------------------------- C21

\* The events of the given type sent so far.
SrvSent(type) == {i \in 1..Len(srv.out) : srv.out[i].type = type}

UnsupportedRate == Event("error", <<"unsupported_sample_rate">>)

\* C21: when the session in AwaitingStart handles a start whose sampleRate is
\* not 16000, it sends Error unsupported_sample_rate and closes, and a
\* connection that was sent that error is never sent Started.
C21_BadRateRejected ==
    /\ [][\A r \in {8000} : (srv.state = "AwaitingStart" /\ SrvRecvStart(r)) =>
            /\ srv'.out = Append(srv.out, UnsupportedRate)
            /\ srv'.state = "Closed"
            /\ ~srv'.open]_vars
    /\ []((\E i \in 1..Len(srv.out) : srv.out[i] = UnsupportedRate) =>
            (SrvSent("started") = {} /\ srv.state = "Closed"))

\* The bad start was rejected and the connection closed, some time ago.
C21_Witness ==
    /\ srv.out = <<Event("ready", << >>), UnsupportedRate>>
    /\ srv.state = "Closed"
    /\ srv.now > 0

\* ---------------------------------------------------------------------- C22

\* The last event sent to the client.
LastEvent(s) == s.out[Len(s.out)]

\* C22: a session that has left Streaming through Stop or the silence timeout
\* appends no audio to the accumulator; the only decode it starts is one over
\* the whole accumulator, when none is running; unless the decode fails or the
\* transport closes it ends by sending Final; a Final is sent at most once,
\* closes the session and the connection, and is the last event; and a closed
\* session sends nothing.
C22_FinalizeOnce ==
    /\ [][srv.state = "Finalizing" =>
            /\ srv'.state = "Finalizing" => srv'.acc = srv.acc
            /\ srv'.decodes # srv.decodes =>
                    /\ srv.inflight = 0 /\ ~srv.final /\ srv'.final
                    /\ srv'.decodes = srv.decodes + 1
                    /\ srv'.input = srv.acc
            /\ (srv'.state # "Finalizing" /\ ~srv'.cancelled /\ LastEvent(srv').type # "error") =>
                    /\ srv.final
                    /\ srv'.state = "Closed"
                    /\ \E text \in Finals : srv'.out = Append(srv.out, Event("final", Trim(text)))]_vars
    /\ [][srv.state = "Closed" => (srv'.out = srv.out /\ srv'.state = "Closed")]_vars
    /\ [](srv.state = "Finalizing" => srv.cause \in {"stop", "silence"})
    /\ [](SrvSent("final") # {} =>
            /\ Cardinality(SrvSent("final")) = 1
            /\ LastEvent(srv).type = "final"
            /\ srv.state = "Closed"
            /\ ~srv.open
            /\ srv.cause \in {"stop", "silence"})

\* The silence timeout ended a session that had sent a partial; audio that came
\* after it was not accumulated; the Final was sent.
C22_Witness ==
    /\ srv.cause = "silence"
    /\ srv.state = "Closed"
    /\ LastEvent(srv).type = "final"
    /\ SrvSent("partial") # {}
    /\ Len(srv.acc) = 1
    /\ srv.got = 2

\* ---------------------------------------------------------------------- C23

\* C23: a start message handled in Streaming, whatever its sampleRate, sends one
\* Error event and closes the session and the connection; the accumulator is
\* not begun again, and no connection is sent Started twice.
C23_SessionExclusive ==
    /\ [][\A r \in {8000, REQUIRED_SAMPLE_RATE} :
            (srv.state = "Streaming" /\ SrvRecvStart(r)) =>
                /\ Len(srv'.out) = Len(srv.out) + 1
                /\ LastEvent(srv').type = "error"
                /\ srv'.state = "Closed"
                /\ ~srv'.open
                /\ srv'.acc = srv.acc]_vars
    /\ [](Cardinality(SrvSent("started")) <= 1)

\* A session that had accumulated audio was sent a second start and ended with
\* an error.
C23_Witness ==
    /\ SrvSent("started") # {}
    /\ Len(srv.acc) > 0
    /\ LastEvent(srv) = Event("error", <<"invalid_message">>)
    /\ srv.state = "Closed"

\* ---------------------------------------------------------------------- C24

\* C24: at most one decode of the session is running and none is queued; a
\* scheduler tick that finds a decode running starts and queues nothing; and a
\* binary message that arrives in Streaming while a decode is running is
\* appended to the accumulator.
C24_OneDecodeInFlight ==
    /\ [](srv.inflight <= 1 /\ srv.queued = 0)
    /\ [][(srv.inflight > 0 /\ SrvSchedulerTick) =>
            /\ srv'.decodes = srv.decodes
            /\ srv'.inflight = srv.inflight
            /\ srv'.queued = srv.queued
            /\ srv'.input = srv.input]_vars
    /\ [][\A loud \in BOOLEAN :
            (srv.inflight > 0 /\ srv.state = "Streaming" /\ SrvRecvAudio(loud)) =>
                (srv'.acc = Append(srv.acc, loud) /\ srv'.inflight = srv.inflight)]_vars

\* One decode is running; a second tick found it running, and a chunk arrived
\* after it was submitted.
C24_Witness ==
    /\ srv.state = "Streaming"
    /\ srv.inflight = 1
    /\ srv.decodes = 1
    /\ srv.ticks = 2
    /\ Len(srv.acc) > Len(srv.input)

\* ---------------------------------------------------------------------- C25

\* The block of this step was a voice candidate.
WasCandidate == batch'.quietRun = 0

\* C25: voiceDetectedFrames is never negative and silenceFrames is positive
\* only when voice is confirmed; a candidate block adds 1 to
\* voiceDetectedFrames and sets silenceFrames to 0; a non-candidate block takes
\* 1 from voiceDetectedFrames, not below 0, and adds 1 to silenceFrames if
\* voice is confirmed and leaves it otherwise; and no block of a session
\* unconfirms voice.
C25_VadCounters ==
    /\ [](batch.voiceDetectedFrames >= 0
            /\ (batch.silenceFrames > 0 => batch.hasDetectedVoice))
    /\ [][BlockStep =>
            /\ WasCandidate =>
                    /\ batch'.voiceDetectedFrames = batch.voiceDetectedFrames + 1
                    /\ batch'.silenceFrames = 0
            /\ ~WasCandidate =>
                    /\ batch'.voiceDetectedFrames =
                            (IF batch.voiceDetectedFrames > 0
                             THEN batch.voiceDetectedFrames - 1 ELSE 0)
                    /\ batch'.silenceFrames =
                            (IF batch.hasDetectedVoice
                             THEN batch.silenceFrames + 1 ELSE batch.silenceFrames)
            /\ batch.hasDetectedVoice => batch'.hasDetectedVoice]_vars

\* Voice was confirmed and a run of silence has brought voiceDetectedFrames
\* down to 0, where another non-candidate block left it.
C25_Witness ==
    /\ batch.hasDetectedVoice
    /\ batch.voiceDetectedFrames = 0
    /\ batch.quietRun > ONSET_FRAMES + 2
    /\ batch.silenceFrames = batch.quietRun

\* ---------------------------------------------------------------------- C26

\* This step ends a recording in which no voice was confirmed.
EndsUnvoiced ==
    batch.isRecording /\ ~batch'.isRecording /\ ~batch'.hasDetectedVoice

\* C26: as long as voice is not confirmed silenceFrames is 0, and a recording
\* in which no voice was confirmed is ended by a click on the button or by the
\* 30 s timer, never by an audio block.
C26_NoSilenceStopUnvoiced ==
    /\ [](~batch.hasDetectedVoice => batch.silenceFrames = 0)
    /\ [][EndsUnvoiced =>
            /\ batch'.nBlocks = batch.nBlocks
            /\ Batch_ClickStop \/ \E k \in BActs : Batch_TimerFires(k)]_vars

\* More than 46 silent blocks in a row were recorded, no voice was confirmed,
\* and the recording went on until a click or the timer stopped it.
C26_Witness ==
    /\ ~batch.hasDetectedVoice
    /\ batch.quietRun > SILENCE_FRAMES + 1
    /\ batch.quietRun = batch.nBlocks
    /\ ~batch.isRecording
    /\ batch.nStops = 1

\* ---------------------------------------------------------------------- C27

\* The count that +1 per candidate and -1, not below 0, per non-candidate
\* gives over the candidate decisions fed.
RECURSIVE FramesAfter(_)
FramesAfter(fed) ==
    IF fed = << >> THEN 0
    ELSE LET before == FramesAfter(SubSeq(fed, 1, Len(fed) - 1))
         IN IF fed[Len(fed)] THEN before + 1
            ELSE IF before > 0 THEN before - 1 ELSE 0

\* Of the first eight blocks of the session, as far as they were fed, block i
\* alone was not a candidate.
OnlyMiss(i) ==
    \A j \in 1..Len(batch.fed) : batch.fed[j] = (j # i)

\* C27: voice is never confirmed before the sixth block of a session; over
\* the first blocks of a session voiceDetectedFrames is the count with decay
\* of the candidate decisions, and voice is confirmed exactly when that count
\* has exceeded 5 after some block; one non-candidate block between candidate
\* blocks moves the onset from block 6 to block 8.
C27_CumulativeOnset ==
    /\ batch.hasDetectedVoice => batch.nBlocks > ONSET_FRAMES
    /\ batch.nBlocks = Len(batch.fed) =>
            /\ batch.voiceDetectedFrames = FramesAfter(batch.fed)
            /\ batch.hasDetectedVoice =
                    (\E n \in 1..Len(batch.fed) :
                        FramesAfter(SubSeq(batch.fed, 1, n)) > ONSET_FRAMES)
    /\ \A i \in 2..(ONSET_FRAMES + 1) :
            (Len(batch.fed) > ONSET_FRAMES + 1 /\ OnlyMiss(i)) =>
                (batch.hasDetectedVoice = (Len(batch.fed) > ONSET_FRAMES + 2))

\* Three candidate blocks, one non-candidate block and four more candidate
\* blocks: voice was confirmed on block 8.
C27_Witness ==
    /\ batch.nBlocks = ONSET_FRAMES + 3
    /\ Len(batch.fed) = ONSET_FRAMES + 3
    /\ OnlyMiss(4)
    /\ batch.hasDetectedVoice
    /\ batch.onsets = 1

\* ---------------------------------------------------------------------- C28

\* Blocks of LevelLen samples, so that one sign change in a block is a
\* zero-crossing rate of exactly 0.02.
LevelLen == 50
MaxLevelBlocks == 7

LevelZero == Float32Array([i \in 1..LevelLen |-> 0])
\* The sign changes with every sample.
LevelTone == Float32Array([i \in 1..LevelLen |-> IF i % 2 = 1 THEN 1 ELSE 0 - 1])
\* One sign change, in the middle of the block.
LevelSlow == Float32Array([i \in 1..LevelLen |-> IF 2 * i <= LevelLen THEN 1 ELSE 0 - 1])
\* Two sign changes.
LevelTwo == Float32Array([i \in 1..LevelLen |->
                IF 5 * i <= 2 * LevelLen \/ 5 * i > 4 * LevelLen THEN 1 ELSE 0 - 1])

Batch_LevelBlock(k, input) ==
    /\ batch.nBlocks < MaxLevelBlocks
    /\ Batch_AudioProcess(k, input)

\* The batch script through one recording of blocks of the four kinds.
NextLevels ==
    \/ Batch_FocusIn(1)
    \/ Batch_FirstClickStart
    \/ \E k \in BActs : Batch_MediaResolved(k)
    \/ \E k \in BActs : \E input \in {LevelZero, LevelTone, LevelSlow, LevelTwo} :
            Batch_LevelBlock(k, input)
    \/ Batch_ClickStop

SpecLevels == BatchSpecInit /\ [][NextLevels]_vars

\* The number of adjacent pairs of samples of strictly opposite sign.
OppositePairs(data) ==
    Cardinality({i \in 1..(Len(data) - 1) :
        \/ data[i] > 0 /\ data[i + 1] < 0
        \/ data[i] < 0 /\ data[i + 1] > 0})

\* C28: a block first moves noiseFloor to 0.95 of its value plus 0.05 of the
\* block's RMS, and is a candidate exactly when its RMS is more than 3.5 times
\* that new noiseFloor and its pairs of adjacent samples of opposite sign are
\* more than 0.02 of its length.
C28_FloorThenClassify ==
    [][(BlockStep /\ Len(batch'.heard) > Len(batch.heard)) =>
        LET data == batch'.heard[Len(batch'.heard)]
            rms == Rms(data)
        IN /\ batch'.noiseFloor = (19 * batch.noiseFloor + rms * NoiseUnit) \div 20
           /\ WasCandidate =
                (/\ 2 * rms * NoiseUnit > 7 * batch'.noiseFloor
                 /\ 50 * OppositePairs(data) > Len(data))]_vars

\* A block with two sign changes in its 50 samples was a candidate, the next
\* one, as loud but with one sign change, was not, and of the equally loud
\* blocks with many sign changes that followed, the noise floor let block 6
\* pass and block 7 not.
C28_Witness ==
    /\ batch.nBlocks = 7
    /\ OppositePairs(batch.heard[1]) = 2 /\ batch.fed[1]
    /\ OppositePairs(batch.heard[2]) = 1 /\ ~batch.fed[2]
    /\ Rms(batch.heard[2]) = Rms(batch.heard[1])
    /\ batch.heard[6] = batch.heard[7]
    /\ OppositePairs(batch.heard[7]) > 2
    /\ batch.fed[6] /\ ~batch.fed[7]

\* ---------------------------------------------------------------------- C29

\* floor(k * ratio) for the rates of the call.
WindowStart(k) == (k * rs.inRate) \div rs.outRate

\* C29: output sample k of a decimation is the clamped and scaled average of
\* exactly the input samples floor(k * ratio) up to but not floor((k + 1) *
\* ratio); each such window has at least one sample and ends within the
\* input; the windows of consecutive outputs meet without overlap, and the
\* input from floor(newLen * ratio) on is in no window.
C29_Windows ==
    \A o \in Decimated :
        /\ \A k \in 0..(Len(o.data) - 1) :
            LET lo == WindowStart(k)
                hi == WindowStart(k + 1)
                d == SampleUnit * (hi - lo)
            IN /\ lo < hi
               /\ hi <= Len(rs.buffer.data)
               /\ WindowOf(k) = lo..(hi - 1)
               /\ \A j \in 0..(Len(o.data) - 1) : j # k => WindowOf(j) \cap WindowOf(k) = {}
               /\ o.data[k + 1] =
                    ToInt16(Clamp(SumOver(rs.buffer.data, lo..(hi - 1)), d) * PCM_POS, d)
        /\ UNION {WindowOf(k) : k \in 0..(Len(o.data) - 1)} =
                0..(WindowStart(Len(o.data)) - 1)

\* Four samples were decimated by 1.5 to two: windows of one and of two
\* samples, and the fourth sample in neither.
C29_Witness ==
    /\ Decimated # {}
    /\ rs.inRate = 24000 /\ rs.outRate = 16000
    /\ Len(rs.buffer.data) = MaxLen
    /\ \A o \in Decimated :
        /\ Len(o.data) = 2
        /\ WindowOf(0) = {0} /\ WindowOf(1) = {1, 2}
        /\ WindowStart(Len(o.data)) < Len(rs.buffer.data)

\* ---------------------------------------------------------------------- C30

\* The microphone streams acquired and not released, and the sockets opened
\* and not closed or closing.
HeldStreams == {k \in Acts : streams[k] \in {"live", "capturing"}}
HeldSockets == {s \in Acts : sock[s] \in {"CONNECTING", "OPEN"}}

\* C30: the streaming client holds at most one microphone stream and at most
\* one connection, and the one it holds is the one micStream or ws refers to.
C30_SingleCapture ==
    /\ Cardinality(HeldStreams) <= 1
    /\ Cardinality(HeldSockets) <= 1
    /\ \A k \in HeldStreams : micStream = k
    /\ \A s \in HeldSockets : ws = s

\* ---------------------------------------------------------------------- C31

\* No invocation of startRecording is under way and every socket the script
\* opened is closed: whatever session there was has ended.
NoSession ==
    /\ \A k \in Acts : pc[k] \in {"idle", "done"}
    /\ \A s \in Acts : sock[s] \in {"NONE", "CLOSED"}
    /\ ~isRecording

\* C31: a click that starts a session once the previous one has ended finds
\* lastPartial empty, lastPartialTs 0, liveStartIdx null and livePrevLen 0.
C31_FreshSession ==
    [][(NoSession /\ ClickStart) =>
            /\ lastPartial = Empty
            /\ lastPartialTs = 0
            /\ liveStartIdx = NullIdx
            /\ livePrevLen = 0]_vars

\* ---------------------------------------------------------------------- C32

\* C32: a partial that passes the checks and is shown in the field in which the
\* partials of its session are shown leaves the field as before + partial +
\* after, with before and after the text on each side of the caret when the
\* session's first partial was shown; livePrevLen is the length of the partial,
\* the caret is at liveStartIdx + livePrevLen, and no other field changes.
C32_LiveRegionOnly ==
    [][\A s \in Acts : \A t \in Hyps :
        (/\ RecvPartial(s, t)
         /\ s = ws
         /\ PassesFiveChecks(Trim(t))
         /\ currentEl # Null
         /\ shown[s] # << >> => shown[s][1].el = currentEl) =>
            /\ value'[currentEl] =
                    shown'[s][1].before \o Trim(t) \o shown'[s][1].after
            /\ shown[s] # << >> => shown'[s] = shown[s]
            /\ liveStartIdx' = Len(shown'[s][1].before)
            /\ livePrevLen' = Len(Trim(t))
            /\ sel'[currentEl] = <<liveStartIdx' + livePrevLen', liveStartIdx' + livePrevLen'>>
            /\ \A e \in Els \ {currentEl} : value'[e] = value[e]
      ]_vars

\* ---------------------------------------------------------------------- C33

\* The state the script is left in by this step, as the handlers take it.
CurAfter ==
    [Cur EXCEPT !.value = value', !.sel = sel', !.currentEl = currentEl',
                !.liveStartIdx = liveStartIdx', !.livePrevLen = livePrevLen']

\* C33: an error event or a close of the session's connection while Streaming,
\* in the field in which the session's partials were shown, puts the field back
\* to its value of before the first partial, and a further clearLiveText then
\* changes neither a field nor the live state.
C33_AbortRestores ==
    [][\A s \in Acts :
        (/\ RecvError(s) \/ WsClosed(s)
         /\ s = ws
         /\ isRecording
         /\ currentEl # Null
         /\ shown[s] # << >>
         /\ shown[s][1].el = currentEl) =>
            /\ value'[currentEl] = shown[s][1].before \o shown[s][1].after
            /\ clearLiveText(CurAfter).value = value'
            /\ clearLiveText(CurAfter).liveStartIdx = liveStartIdx'
            /\ clearLiveText(CurAfter).livePrevLen = livePrevLen'
      ]_vars

\* ---------------------------------------------------------------------- C34

\* C34: the final of a session changes no field other than the one in which
\* the session's partials were shown, its target since before the first of
\* them.
C34_TargetOnly ==
    [][\A s \in Acts : \A t \in Finals :
        (RecvFinal(s, t) /\ s = ws /\ shown[s] # << >>) =>
            \A e \in Els \ {shown[s][1].el} : value'[e] = value[e]
      ]_vars

\* ---------------------------------------------------------------------- C35

\* Invocation j of stopRecording, which passed the guard, ends with this step.
StopEnds(j) == batch.spc[j] # "done" /\ batch'.spc[j] = "done"

\* C35: when an invocation of stopRecording that passed the guard ends, the
\* button is idle and recordedChunks is empty; when it ends because there was
\* no audio or because the request failed, no field has changed.
C35_StopAlwaysResets ==
    [][\A j \in BActs : StopEnds(j) =>
            /\ batch'.btn = "idle"
            /\ batch'.recordedChunks = << >>
            /\ (batch.spc[j] = "idle" \/ Batch_ResponseFails(j)) =>
                    batch'.value = batch.value]_vars

\* Two invocations have ended, one of them without a request: the button is
\* idle and nothing is left in recordedChunks.
C35_Witness ==
    /\ batch.nStops = 2
    /\ \A j \in BActs : batch.spc[j] = "done"
    /\ batch.posts = 1
    /\ batch.btn = "idle"
    /\ batch.recordedChunks = << >>

\* ---------------------------------------------------------------------- C36

\* This step is an invocation of stopRecording that passes the guard with no
\* samples in recordedChunks.
StopsEmpty ==
    /\ batch'.nStops = batch.nStops + 1
    /\ Concat(batch.recordedChunks) = << >>

\* C36: a stopRecording that finds no samples ends at once, with no request
\* made and no field changed, and an invocation that has ended makes no
\* request later.
C36_NoAudioNoRequest ==
    [][/\ StopsEmpty =>
            /\ batch'.spc[batch'.nStops] = "done"
            /\ batch'.posts = batch.posts
            /\ batch'.value = batch.value
       /\ \A j \in BActs : batch.spc[j] = "done" => batch'.spc[j] = "done"]_vars

\* A recording was stopped before its first block: no request was made.
C36_Witness ==
    /\ batch.epochs = 1
    /\ batch.nBlocks = 0
    /\ batch.nStops = 1
    /\ batch.spc[1] = "done"
    /\ batch.posts = 0
    /\ batch.value = BatchInit(RECORD_SAMPLE_RATE).value

\* ---------------------------------------------------------------------- C37

\* The batch script on a page whose timers fire: a timeout that stays armed is
\* delivered.
SpecBatchLive ==
    /\ BatchSpecInit
    /\ [][NextBatch]_vars
    /\ \A k \in BActs : WF_vars(Batch_TimerFires(k))

\* C37: a recording in progress is stopped sooner or later, whether or not the
\* user clicks and whatever the audio is.
C37_EventuallyStops == batch.isRecording ~> ~batch.isRecording

\* ---------------------------------------------------------------------- C38

\* C38: when an invocation of stopRecording ends while a recording is in
\* progress, it leaves recordedChunks and the button of that recording as they
\* are.
C38_UploadLeavesNewSession ==
    [][\A j \in BActs :
        (StopEnds(j) /\ batch.isRecording /\ batch'.isRecording) =>
            /\ batch'.recordedChunks = batch.recordedChunks
            /\ batch'.btn = batch.btn]_vars

\* ------------------------------------------------------------------- popup
\* entrypoints/popup/App.tsx: the status checks of the popup.  A handler of a
\* React component reads the state of the render that created it: the mount
\* effect runs once (its dependency list is empty), so its timeout and its
\* interval call the checkServerStatus of the first render; a click calls the
\* handler of the render that is on screen.

\* Invocations of checkServerStatus in one run of the model.
MaxChecks == 2

PCommit(p) ==
    /\ popup' = p
    /\ UNCHANGED <<streamVars, batch, rs, srv>>

PChecks == 1..Len(popup.checks)

\* checkServerStatus up to its await: a socket to wsUrl() of the render the
\* function belongs to, and the timeout.  by is the caller, seen the
\* serverStatus of the caller's render.
Popup_checkServerStatus(p, url, by, seen) ==
    [p EXCEPT !.checks = Append(@,
        [url |-> url, by |-> by, seen |-> seen,
         sock |-> "CONNECTING",
         timer |-> "armed",
         settled |-> FALSE,
         opened |-> FALSE,              \* the socket opened before the check settled
         result |-> "pending",
         resolves |-> 0])]              \* calls of resolve

\* resolve(ok), and what runs after the awaits: the rest of checkServerStatus,
\* then the rest of the caller.
Popup_resolved(p, c, ok) ==
    LET q == [p EXCEPT !.checks[c].result = IF ok THEN "online" ELSE "offline",
                       !.checks[c].resolves = @ + 1,
                       !.serverStatus = IF ok THEN "online" ELSE "offline",
                       !.error = IF ok THEN NoError ELSE @]
        by == p.checks[c].by
    IN  CASE by = "test" ->
               [q EXCEPT !.isLoading = FALSE,
                         !.error = IF p.checks[c].seen = "offline" THEN NotReachable ELSE @]
          [] by = "save" -> [q EXCEPT !.isSaving = FALSE]
          [] OTHER -> q

Popup_onopen(p, c) ==
    IF p.checks[c].settled THEN p
    ELSE Popup_resolved([p EXCEPT !.checks[c].settled = TRUE,
                                  !.checks[c].timer = "cleared",
                                  !.checks[c].opened = TRUE,
                                  !.checks[c].sock = "CLOSED"], c, TRUE)

Popup_onerror(p, c) ==
    IF p.checks[c].settled THEN p
    ELSE Popup_resolved([p EXCEPT !.checks[c].settled = TRUE,
                                  !.checks[c].timer = "cleared"], c, FALSE)

\* The timeout: close() on a socket that is still connecting fails the
\* connection, and its error event follows.
Popup_onTimeout(p, c) ==
    IF p.checks[c].settled THEN p
    ELSE Popup_resolved([p EXCEPT !.checks[c].settled = TRUE,
                                  !.checks[c].sock = "ABORTED"], c, FALSE)

\* The callback of chrome.storage.local.get in the mount effect.
PopupStorageLoaded ==
    /\ ~popup.loaded
    /\ PCommit([popup EXCEPT !.loaded = TRUE,
                             !.endpoint = IF popup.stored # NoEndpoint THEN popup.stored ELSE @,
                             !.mountCheck = TRUE])

\* setTimeout(checkServerStatus, 0) of the mount effect.
PopupMountCheck ==
    /\ popup.mountCheck
    /\ Len(popup.checks) < MaxChecks
    /\ PCommit(Popup_checkServerStatus([popup EXCEPT !.mountCheck = FALSE],
                                       DefaultEndpoint, "mount", "checking"))

\* setInterval(checkServerStatus, 5000) of the mount effect.
PopupInterval ==
    /\ Len(popup.checks) < MaxChecks
    /\ PCommit(Popup_checkServerStatus(popup, DefaultEndpoint, "interval", "checking"))

\* The user edits the protocol or the base.
PopupEdit(e) ==
    /\ e # popup.endpoint
    /\ PCommit([popup EXCEPT !.endpoint = e])

\* testConnection up to its await.
PopupTestClick ==
    /\ ~popup.isLoading
    /\ Len(popup.checks) < MaxChecks
    /\ PCommit(Popup_checkServerStatus([popup EXCEPT !.isLoading = TRUE, !.error = NoError],
                                       popup.endpoint, "test", popup.serverStatus))

\* saveSettings up to its first await.
PopupSaveClick ==
    /\ ~popup.isSaving
    /\ popup.saving = NoEndpoint
    /\ PCommit([popup EXCEPT !.isSaving = TRUE, !.error = NoError, !.saving = popup.endpoint])

\* The callback of chrome.storage.local.set, and saveSettings up to its second await.
PopupSaved ==
    /\ popup.saving # NoEndpoint
    /\ Len(popup.checks) < MaxChecks
    /\ PCommit(Popup_checkServerStatus([popup EXCEPT !.stored = popup.saving, !.saving = NoEndpoint],
                                       popup.saving, "save", popup.serverStatus))

\* The socket of check c opens: its endpoint accepts the connection.
PopupSockOpens(c) ==
    /\ popup.checks[c].sock = "CONNECTING"
    /\ popup.checks[c].url \in popup.up
    /\ PCommit(Popup_onopen(popup, c))

\* The error event of the socket of check c: the connection failed, or close()
\* ended it while it was connecting.
PopupSockFails(c) ==
    /\ \/ popup.checks[c].sock = "CONNECTING" /\ popup.checks[c].url \notin popup.up
       \/ popup.checks[c].sock = "ABORTED"
    /\ PCommit(Popup_onerror([popup EXCEPT !.checks[c].sock = "CLOSED"], c))

\* 2500 ms after check c started.
PopupTimerFires(c) ==
    /\ popup.checks[c].timer = "armed"
    /\ PCommit(Popup_onTimeout([popup EXCEPT !.checks[c].timer = "fired"], c))

\* A server starts or stops accepting connections.
PopupServerChanges(e) ==
    /\ e \in Endpoints
    /\ PCommit([popup EXCEPT !.up = IF e \in @ THEN @ \ {e} ELSE @ \cup {e}])

NextPopup ==
    \/ PopupStorageLoaded
    \/ PopupMountCheck
    \/ PopupInterval
    \/ \E e \in Endpoints : PopupEdit(e)
    \/ PopupTestClick
    \/ PopupSaveClick
    \/ PopupSaved
    \/ \E c \in PChecks : PopupSockOpens(c)
    \/ \E c \in PChecks : PopupSockFails(c)
    \/ \E c \in PChecks : PopupTimerFires(c)
    \/ \E e \in Endpoints : PopupServerChanges(e)

PopupSpecInit ==
    /\ StreamInit
    /\ rs = RsInit(Float32Array(<< >>), RECORD_SAMPLE_RATE, RECORD_SAMPLE_RATE)
    /\ batch = BatchInit(RECORD_SAMPLE_RATE)
    /\ srv = SrvInit
    /\ popup \in {PopupInit(st, {}) : st \in {NoEndpoint, OtherEndpoint}}

SpecPopup == PopupSpecInit /\ [][NextPopup]_vars

\* ----------------------------------------------------------------- C39
\* C39: every status check of the popup, whoever starts it (the check after
\* the settings were loaded, the periodic one, Test Connection, Save), opens
\* its socket to the endpoint that is configured when it starts.
StartsCheck == Len(popup'.checks) = Len(popup.checks) + 1

C39_ProbesConfigured ==
    [][StartsCheck => popup'.checks[Len(popup'.checks)].url = popup'.endpoint]_vars

\* ----------------------------------------------------------------- C40
\* C40: when the check that Test Connection started resolves, the message
\* "Server not reachable" is shown if and only if that check failed; a check
\* resolves at most once, and to online only if its socket opened.
Resolves(c) == popup.checks[c].resolves = 0 /\ popup'.checks[c].resolves > 0

C40_TestReportsItsCheck ==
    [][\A c \in PChecks :
          /\ popup'.checks[c].resolves <= 1
          /\ popup'.checks[c].result = "online" => popup'.checks[c].opened
          /\ (Resolves(c) /\ popup.checks[c].by = "test") =>
                (popup'.error = NotReachable <=> popup'.checks[c].result = "offline")]_vars

====
